---- MODULE Spec2Model ----
(***************************************************************************)
(* Asynchronous analysis-task orchestration of the Telegram service        *)
(* (telegram.go): the /analyze, /top20_analyze and /batch_analyze          *)
(* handlers, the dispatch goroutines processAnalysisTask and               *)
(* processBatchAnalysisTask, the progress monitor, the bounded analysis    *)
(* channel and the worker draining it.                                     *)
(*                                                                         *)
(* Strings that the code inspects character by character (usernames, the   *)
(* entries of a batch list) are sequences of one-character strings; every  *)
(* other text is a TLA+ string holding the literal of the code.            *)
(*                                                                         *)
(* Store calls whose error the code handles (CreateAnalysisTask,           *)
(* GetAnalysisTask, GetUserByUsername, GetUserTweetForAnalysis,            *)
(* GetCachedAnalysis, GetTopActiveUsers) succeed or fail                   *)
(* nondeterministically; store writes whose result the code discards       *)
(* (UpdateAnalysisTaskProgress, UpdateAnalysisTask, SetAnalysisTaskError)  *)
(* are applied.                                                            *)
(***************************************************************************)
EXTENDS Integers, Sequences, FiniteSets, TLC

\* ---------------------------------------------------------------- bounds
MaxCommands == 1    \* /analyze, /top20_analyze and /batch_analyze commands received
MaxTasks == 2       \* task IDs the store accepts in one behaviour
ChanCap == 1        \* capacity of the buffered analysisChannel
MaxBatch == 3       \* entries of the comma-separated list of one /batch_analyze
MaxTop == 2         \* users GetTopActiveUsers returns
HistCap == 2        \* the history counters stop counting here
MaxPolls == 2       \* calls of processUpdates
MaxUpdates == 2     \* updates one getUpdates returns
MaxStores == 2      \* calls of StoreAndBroadcastNotification
MaxListeners == 2   \* goroutines StartListening starts in one behaviour
MaxInbox == 2       \* updates that reach the bot in one behaviour

\* ------------------------------------------------------ program constants
MaxUsernameLen == 50
MaxBatchUsers == 20

TaskIDs == 1..MaxTasks
NoTask == [none |-> TRUE]
Chats == {1}

alice == <<"a">>
bob == <<"b">>
Usernames == {alice, bob}

\* The user store's ID of an account, and the placeholder of an unresolved one.
UserIDOf(username) == <<"id_">> \o username
UnknownID(username) == <<"unknown_">> \o username
NoUserID == <<>>

ANALYSIS_STATUS_PENDING == "pending"
ANALYSIS_STATUS_RUNNING == "running"
ANALYSIS_STATUS_COMPLETED == "completed"
ANALYSIS_STATUS_FAILED == "failed"

ANALYSIS_STEP_INIT == "init"
ANALYSIS_STEP_USER_LOOKUP == "user_lookup"
ANALYSIS_STEP_TICKER_SEARCH == "ticker_search"
ANALYSIS_STEP_CLAUDE_ANALYSIS == "ai_analysis"
ANALYSIS_STEP_SAVING_RESULTS == "saving_results"

\* The place of a step in the order of the steps.
StepOrder(step) ==
    CASE step = ANALYSIS_STEP_INIT -> 0
      [] step = ANALYSIS_STEP_USER_LOOKUP -> 1
      [] step = ANALYSIS_STEP_TICKER_SEARCH -> 2
      [] step = ANALYSIS_STEP_CLAUDE_ANALYSIS -> 6
      [] step = ANALYSIS_STEP_SAVING_RESULTS -> 7

Terminal(status) == status \in {ANALYSIS_STATUS_COMPLETED, ANALYSIS_STATUS_FAILED}

\* ------------------------------------------------------------- strings
IsSpace(c) == c = " "

RECURSIVE TrimLeft(_)
TrimLeft(s) == IF s # <<>> /\ IsSpace(Head(s)) THEN TrimLeft(Tail(s)) ELSE s

RECURSIVE TrimRight(_)
TrimRight(s) ==
    IF s # <<>> /\ IsSpace(s[Len(s)]) THEN TrimRight(SubSeq(s, 1, Len(s) - 1)) ELSE s

\* strings.TrimSpace
TrimSpace(s) == TrimRight(TrimLeft(s))

\* strings.TrimPrefix(s, "@")
TrimPrefixAt(s) == IF s # <<>> /\ Head(s) = "@" THEN Tail(s) ELSE s

\* strings.Contains(s, " ")
ContainsSpace(s) == \E i \in 1..Len(s) : s[i] = " "

VARIABLES
    tasks,            \* the task store: task ID -> record, or NoTask
    issued,           \* task IDs generated so far
    request,          \* per task ID: the handler that generated it and how it ended
    analysisChannel,  \* the buffered channel: items not yet received
    sendq,            \* senders parked on the full channel, oldest first
    flow,             \* per task ID: the dispatch goroutine (pc and locals)
    monitor,          \* per task ID: the monitorAnalysisProgress goroutine
    message,          \* per message ID: the text of that progress message in the chat
    worker,           \* per task ID: how far the external worker is with it
    batch,            \* the /batch_analyze handler (pc and locals)
    top,              \* the /top20_analyze handler (pc and locals)
    cached,           \* user IDs with a fresh cached analysis
    replies,          \* kinds of handler replies sent to the chat so far
    cachedSent,       \* per username: cached-result notifications sent
    hist,             \* per task ID: what was offered, enqueued, read and edited
    initialChatIDs,   \* the entries of the comma-separated initialChatIDs
    chatIDs,          \* the map of registered chats: chat ID -> TRUE
    chatMutex,        \* the goroutines holding chatMutex for reading
    poll,             \* processUpdates: where it is, the updates left, the chats seen
    bc,               \* StoreAndBroadcastNotification / BroadcastMessage under way
    listed,           \* what the last GetRegisteredChats returned
    notifications,    \* the map of stored notifications: ID -> alert
    stored,           \* the stores so far: the ID generated and the alert, in order
    detail,           \* the last /detail_ command and the reply it got
    resumed,          \* per task ID: a second monitorAnalysisProgress goroutine
    isRunning,        \* the flag StartListening sets and StopListening clears
    listeners,        \* the goroutines StartListening started: where each one is
    lastOffset,       \* the offset of the next getUpdates
    telegram,         \* the bot's updates at Telegram, and the offset confirmed
    dispatched        \* per update ID: the passes of the loop and the handlers started

taskVars == <<tasks, issued, request, analysisChannel, sendq, flow, monitor, message,
              worker, batch, top, cached, replies, cachedSent, hist, resumed>>

registryVars == <<initialChatIDs, chatIDs, chatMutex, poll, bc, listed, notifications,
                  stored, detail>>

listenVars == <<isRunning, listeners, lastOffset, telegram, dispatched>>

vars == <<taskVars, registryVars, listenVars>>

\* ------------------------------------------------------------ task store
\* A record that forgets the message it belongs to.
NewTask_NoMessageID(username, userID, progressText, chatID, messageID) ==
    [Username |-> username, UserID |-> userID,
     Status |-> ANALYSIS_STATUS_PENDING, CurrentStep |-> ANALYSIS_STEP_INIT,
     ProgressText |-> progressText, ErrorMessage |-> "",
     TelegramChatID |-> chatID, MessageID |-> 0]

\* AnalysisTaskModel as the handlers fill it.
NewTask(username, userID, progressText, chatID, messageID) ==
    [Username |-> username, UserID |-> userID,
     Status |-> ANALYSIS_STATUS_PENDING, CurrentStep |-> ANALYSIS_STEP_INIT,
     ProgressText |-> progressText, ErrorMessage |-> "",
     TelegramChatID |-> chatID, MessageID |-> messageID]

\* dbService.UpdateAnalysisTaskProgress(taskID, step, text)
UpdateAnalysisTaskProgress(store, taskID, step, text) ==
    IF store[taskID] = NoTask THEN store
    ELSE [store EXCEPT ![taskID].Status = ANALYSIS_STATUS_RUNNING,
                       ![taskID].CurrentStep = step,
                       ![taskID].ProgressText = text]

\* dbService.UpdateAnalysisTask(task): saves the whole record
UpdateAnalysisTask(store, taskID, task) ==
    IF store[taskID] = NoTask THEN store ELSE [store EXCEPT ![taskID] = task]

\* dbService.SetAnalysisTaskError(taskID, message)
SetAnalysisTaskError(store, taskID, msg) ==
    IF store[taskID] = NoTask THEN store
    ELSE [store EXCEPT ![taskID].Status = ANALYSIS_STATUS_FAILED,
                       ![taskID].ErrorMessage = msg]

\* ------------------------------------------------------------------ Init
NoItem == [none |-> TRUE]
\* A chat text that formatAnalysisProgress did not render.
Text(view) == [view |-> view, emoji |-> "", text |-> ""]
IdleFlow == [pc |-> "none", kind |-> "none", task |-> NoTask, userID |-> NoUserID,
             newMessage |-> NoItem, targetChatID |-> 0]
\* A goroutine that starts over instead of returning.
EndFlow_StartsOver(f) == [IdleFlow EXCEPT !.pc = "get", !.kind = f.kind]
\* A goroutine that returned: its locals are gone.
EndFlow(f) == [IdleFlow EXCEPT !.pc = "done", !.kind = f.kind]
NoHist == [offeredFull |-> FALSE, enqueued |-> 0, termReads |-> 0, termEdits |-> 0,
           readFailed |-> FALSE, panicked |-> ""]
Count(n) == IF n < HistCap THEN n + 1 ELSE n
\* A handler that starts the goroutine whatever CreateAnalysisTask returned.
StartedAfterCreate_Always(createOk, kind, targetChatID) ==
    [IdleFlow EXCEPT !.pc = "get", !.kind = kind, !.targetChatID = targetChatID]
\* The goroutine a handler starts once CreateAnalysisTask succeeded; on an error the
\* handler returns (or continues with the next user) before the go statement.
StartedAfterCreate(createOk, kind, targetChatID) ==
    IF createOk
    THEN [IdleFlow EXCEPT !.pc = "get", !.kind = kind, !.targetChatID = targetChatID]
    ELSE IdleFlow
IdleMonitor == [pc |-> "none", Status |-> "", progressText |-> Text("none"),
                TelegramChatID |-> 0, MessageID |-> 0, err |-> FALSE]
\* The monitor handleAnalyzeCommand starts after the flow.
MonitorAfterCreate(createOk) ==
    IF createOk THEN [IdleMonitor EXCEPT !.pc = "tick"] ELSE IdleMonitor
IdleBatch == [pc |-> "idle", chat |-> 0, usernames |-> <<>>, valid |-> <<>>,
              invalid |-> <<>>, confirmed |-> <<>>, i |-> 1,
              analysisCount |-> 0, skippedCount |-> 0, failed |-> 0, hits |-> {},
              outcomes |-> <<>>]
IdleTop == [pc |-> "idle", chat |-> 0, users |-> <<>>, i |-> 1,
            analysisCount |-> 0, skippedCount |-> 0, failed |-> 0, outcomes |-> <<>>]
\* A loop that the failure of one user ends.
AfterItemFailure_Return(h) ==
    [h EXCEPT !.failed = @ + 1, !.pc = "done", !.outcomes = Append(@, "failed")]
\* A loop that counts a user among the started analyses before it looks at the
\* error of CreateAnalysisTask.
AfterItemFailure_Counted(h) ==
    [h EXCEPT !.failed = @ + 1, !.analysisCount = @ + 1, !.i = @ + 1,
              !.outcomes = Append(@, "failed")]
\* A handler's loop after CreateAnalysisTask failed for one user: the error is
\* logged and the loop continues with the next user.
AfterItemFailure(h) ==
    [h EXCEPT !.failed = @ + 1, !.i = @ + 1, !.outcomes = Append(@, "failed")]

\* The task side of the service and of its collaborators before any command.
InitTasks ==
    /\ tasks = [t \in TaskIDs |-> NoTask]
    /\ issued = 0
    /\ request = [t \in TaskIDs |-> [kind |-> "none", outcome |-> "none"]]
    /\ analysisChannel = <<>>
    /\ sendq = <<>>
    /\ flow = [t \in TaskIDs |-> IdleFlow]
    /\ monitor = [t \in TaskIDs |-> IdleMonitor]
    /\ resumed = [t \in TaskIDs |-> IdleMonitor]
    /\ message = [t \in TaskIDs |-> Text("none")]
    /\ worker = [t \in TaskIDs |-> "none"]
    /\ batch = IdleBatch
    /\ top = IdleTop
    /\ cached \in {{}, {UserIDOf(alice)}}
    /\ replies = {}
    /\ cachedSent = [u \in Usernames |-> 0]
    /\ hist = [t \in TaskIDs |-> NoHist]

\* ------------------------------------------------------ analysis channel
\* A work item that names no chat.
NewMessage_NoChat(taskID, authorID, placeholder, chatID) ==
    [TaskID |-> taskID, AuthorID |-> authorID, Placeholder |-> placeholder,
     IsManualAnalysis |-> TRUE, ForceNotification |-> TRUE, TelegramChatID |-> 0]

\* twitterapi.NewMessage as the dispatch flows build it: the fields that differ
\* between the resolved and the placeholder case.
NewMessage(taskID, authorID, placeholder, chatID) ==
    [TaskID |-> taskID, AuthorID |-> authorID, Placeholder |-> placeholder,
     IsManualAnalysis |-> TRUE, ForceNotification |-> TRUE, TelegramChatID |-> chatID]

\* A send on the buffered channel can proceed without waiting.
HasRoom(ch) == Len(ch) < ChanCap

\* ------------------------------------------------------- /analyze <user>
\* generateNotificationID for a task: a fresh ID (8 random bytes).
generateNotificationID == issued + 1

\* The commands received so far.
Commands ==
    Cardinality({t \in TaskIDs : request[t].kind = "analyze"})
    + (IF batch.pc = "idle" THEN 0 ELSE 1) + (IF top.pc = "idle" THEN 0 ELSE 1)

\* len(args) == 0 || strings.TrimSpace(args[0]) == ""
NoArgument(args) == IF Len(args) = 0 THEN TRUE ELSE TrimSpace(args[1]) = <<>>

\* handleAnalyzeCommand: initial progress message, task record, the two goroutines.
handleAnalyzeCommand(chatID, args) ==
    /\ ~NoArgument(args)
    /\ issued < MaxTasks
    /\ Commands < MaxCommands
    /\ LET username == TrimSpace(args[1])
           taskID == generateNotificationID
           messageID == taskID   \* SendMessageWithID: the ID Telegram gave the message
       IN  /\ issued' = issued + 1
           /\ \E sendOk \in BOOLEAN, createOk \in BOOLEAN, editOk \in BOOLEAN :
                IF ~sendOk
                THEN /\ replies' = replies \cup {"analyze_start_failed"}
                     /\ request' = [request EXCEPT ![taskID] =
                                      [kind |-> "analyze", outcome |-> "sendfail"]]
                     /\ UNCHANGED <<tasks, flow, monitor, message>>
                ELSE /\ createOk => editOk
                     /\ message' = [message EXCEPT ![messageID] =
                                      IF ~createOk /\ editOk THEN Text("create_failed")
                                      ELSE Text("starting")]
                     /\ tasks' = IF createOk
                                 THEN [tasks EXCEPT ![taskID] =
                                         NewTask(username, NoUserID,
                                                 "Initializing analysis...", chatID, messageID)]
                                 ELSE tasks
                     /\ request' = [request EXCEPT ![taskID] =
                                      [kind |-> "analyze",
                                       outcome |-> IF createOk THEN "admitted"
                                                   ELSE "createfail"]]
                     /\ flow' = [flow EXCEPT ![taskID] =
                                   StartedAfterCreate(createOk, "single", 0)]
                     /\ monitor' = [monitor EXCEPT ![taskID] = MonitorAfterCreate(createOk)]
                     /\ UNCHANGED replies
    /\ UNCHANGED <<analysisChannel, sendq, worker, batch, top, cached, cachedSent, hist>>
    /\ UNCHANGED <<resumed, registryVars, listenVars>>

\* ---------------------------------------------------- processAnalysisTask
\* GetAnalysisTask at the start of the flow.
processAnalysisTask_Get(taskID) ==
    /\ flow[taskID].pc = "get" /\ flow[taskID].kind = "single"
    /\ \E ok \in BOOLEAN :
         IF ok /\ tasks[taskID] # NoTask
         THEN flow' = [flow EXCEPT ![taskID].task = tasks[taskID],
                                   ![taskID].pc = "lookup"]
         ELSE flow' = [flow EXCEPT ![taskID] = EndFlow(@)]
    /\ UNCHANGED <<tasks, issued, request, analysisChannel, sendq, monitor, message,
                   worker, batch, top, cached, replies, cachedSent, hist>>
    /\ UNCHANGED <<resumed, registryVars, listenVars>>

\* Step 1, the progress update.
processAnalysisTask_Lookup(taskID) ==
    /\ flow[taskID].pc = "lookup" /\ flow[taskID].kind = "single"
    /\ tasks' = UpdateAnalysisTaskProgress(tasks, taskID, ANALYSIS_STEP_USER_LOOKUP,
                                           "Looking up user information...")
    /\ flow' = [flow EXCEPT ![taskID].pc = "resolve"]
    /\ UNCHANGED <<issued, request, analysisChannel, sendq, monitor, message,
                   worker, batch, top, cached, replies, cachedSent, hist>>
    /\ UNCHANGED <<resumed, registryVars, listenVars>>

\* Step 1, GetUserByUsername and the write-back of the record read at the start.
processAnalysisTask_Resolve(taskID) ==
    /\ flow[taskID].pc = "resolve" /\ flow[taskID].kind = "single"
    /\ LET username == flow[taskID].task.Username IN
       \E found \in BOOLEAN :
         IF ~found
         THEN /\ flow' = [flow EXCEPT ![taskID].userID = UnknownID(username),
                                      ![taskID].pc = "ticker"]
              /\ UNCHANGED tasks
         ELSE LET task == [flow[taskID].task EXCEPT !.UserID = UserIDOf(username)] IN
              /\ flow' = [flow EXCEPT ![taskID].userID = UserIDOf(username),
                                      ![taskID].task = task,
                                      ![taskID].pc = "ticker"]
              /\ tasks' = UpdateAnalysisTask(tasks, taskID, task)
    /\ UNCHANGED <<issued, request, analysisChannel, sendq, monitor, message,
                   worker, batch, top, cached, replies, cachedSent, hist>>
    /\ UNCHANGED <<resumed, registryVars, listenVars>>

\* Step 2: the progress update, GetUserTweetForAnalysis and the work item.
processAnalysisTask_Ticker(taskID) ==
    /\ flow[taskID].pc = "ticker" /\ flow[taskID].kind = "single"
    /\ tasks' = UpdateAnalysisTaskProgress(tasks, taskID, ANALYSIS_STEP_TICKER_SEARCH,
                                           "Searching for user's ticker mentions...")
    /\ LET username == flow[taskID].task.Username IN
       \E tweetFound \in BOOLEAN :
         flow' = [flow EXCEPT
                    ![taskID].newMessage =
                        IF tweetFound
                        THEN NewMessage(taskID, UserIDOf(username), FALSE, 0)
                        ELSE NewMessage(taskID, flow[taskID].userID, TRUE, 0),
                    ![taskID].pc = "announce"]
    /\ UNCHANGED <<issued, request, analysisChannel, sendq, monitor, message,
                   worker, batch, top, cached, replies, cachedSent, hist>>
    /\ UNCHANGED <<resumed, registryVars, listenVars>>

\* Step 3 without its progress update.
processAnalysisTask_Announce_NoUpdate(taskID) ==
    /\ flow[taskID].pc = "announce" /\ flow[taskID].kind = "single"
    /\ flow' = [flow EXCEPT ![taskID].pc = "offer"]
    /\ UNCHANGED <<tasks, issued, request, analysisChannel, sendq, monitor, message,
                   worker, batch, top, cached, replies, cachedSent, hist>>
    /\ UNCHANGED <<resumed, registryVars, listenVars>>

\* Step 3, the progress update before the select.
processAnalysisTask_Announce(taskID) ==
    /\ flow[taskID].pc = "announce" /\ flow[taskID].kind = "single"
    /\ tasks' = UpdateAnalysisTaskProgress(tasks, taskID, ANALYSIS_STEP_CLAUDE_ANALYSIS,
                                           "Sending for FUD analysis...")
    /\ flow' = [flow EXCEPT ![taskID].pc = "offer"]
    /\ UNCHANGED <<issued, request, analysisChannel, sendq, monitor, message,
                   worker, batch, top, cached, replies, cachedSent, hist>>
    /\ UNCHANGED <<resumed, registryVars, listenVars>>

\* Step 3, the select: the send case, or the default case with SetAnalysisTaskError.
processAnalysisTask_Offer(taskID) ==
    /\ flow[taskID].pc = "offer" /\ flow[taskID].kind = "single"
    /\ IF HasRoom(analysisChannel)
       THEN /\ analysisChannel' = Append(analysisChannel, flow[taskID].newMessage)
            /\ flow' = [flow EXCEPT ![taskID].pc = "sent"]
            /\ hist' = [hist EXCEPT ![taskID].enqueued = Count(@)]
            /\ UNCHANGED tasks
       ELSE /\ tasks' = SetAnalysisTaskError(tasks, taskID,
                          "Analysis channel is full, please try again later")
            /\ flow' = [flow EXCEPT ![taskID] = EndFlow(@)]
            /\ hist' = [hist EXCEPT ![taskID].offeredFull = TRUE]
            /\ UNCHANGED analysisChannel
    /\ UNCHANGED <<issued, request, sendq, monitor, message,
                   worker, batch, top, cached, replies, cachedSent>>
    /\ UNCHANGED <<resumed, registryVars, listenVars>>

\* The progress update inside the send case.
processAnalysisTask_Sent(taskID) ==
    /\ flow[taskID].pc = "sent" /\ flow[taskID].kind = "single"
    /\ tasks' = UpdateAnalysisTaskProgress(tasks, taskID, ANALYSIS_STEP_CLAUDE_ANALYSIS,
                                           "Processing with neural network...")
    /\ flow' = [flow EXCEPT ![taskID] = EndFlow(@)]
    /\ UNCHANGED <<issued, request, analysisChannel, sendq, monitor, message,
                   worker, batch, top, cached, replies, cachedSent, hist>>
    /\ UNCHANGED <<resumed, registryVars, listenVars>>

processAnalysisTask(taskID) ==
    \/ processAnalysisTask_Get(taskID)
    \/ processAnalysisTask_Lookup(taskID)
    \/ processAnalysisTask_Resolve(taskID)
    \/ processAnalysisTask_Ticker(taskID)
    \/ processAnalysisTask_Announce(taskID)
    \/ processAnalysisTask_Offer(taskID)
    \/ processAnalysisTask_Sent(taskID)

\* ------------------------------------------------- monitorAnalysisProgress
\* The step emoji of formatAnalysisProgress.
StepEmoji(step) ==
    CASE step = ANALYSIS_STEP_INIT -> "gear"
      [] step = ANALYSIS_STEP_USER_LOOKUP -> "magnifier"
      [] step = ANALYSIS_STEP_TICKER_SEARCH -> "chart"
      [] step = ANALYSIS_STEP_CLAUDE_ANALYSIS -> "robot"
      [] step = ANALYSIS_STEP_SAVING_RESULTS -> "floppy"
      [] OTHER -> "arrows"

\* formatAnalysisProgress: the text of the progress message (the running time left out).
formatAnalysisProgress(task) ==
    IF task.Status = ANALYSIS_STATUS_FAILED
    THEN [view |-> "Analysis Failed", emoji |-> "cross", text |-> task.ErrorMessage]
    ELSE IF task.Status = ANALYSIS_STATUS_COMPLETED
    THEN [view |-> "Analysis Completed", emoji |-> "check",
          text |-> "Finished successfully"]
    ELSE [view |-> "Analyzing", emoji |-> StepEmoji(task.CurrentStep),
          text |-> task.ProgressText]

\* The heading a message shows for a terminal status.
FinalView(status) ==
    IF status = ANALYSIS_STATUS_FAILED THEN "Analysis Failed" ELSE "Analysis Completed"

\* An exit test that forgets the failed status.
MonitorStops_OnlyCompleted(status) == status = ANALYSIS_STATUS_COMPLETED

\* An exit test that never ends the loop.
MonitorStops_Never(status) == FALSE

\* The monitor's exit test after the edit.
MonitorStops(status) ==
    status = ANALYSIS_STATUS_COMPLETED \/ status = ANALYSIS_STATUS_FAILED

\* A monitor that reads again on the next tick after GetAnalysisTask failed.
AfterReadError_Retry(m) == m

\* The monitor after GetAnalysisTask failed: the error is logged and the goroutine
\* returns, with the error of the read.
AfterReadError(m) == [IdleMonitor EXCEPT !.pc = "done", !.err = TRUE]

\* A monitor that returns when EditMessage failed.
AfterEdit_ReturnOnError(editOk, status) ==
    IF ~editOk THEN [IdleMonitor EXCEPT !.pc = "done"]
    ELSE IF MonitorStops(status) THEN [IdleMonitor EXCEPT !.pc = "done"]
    ELSE [IdleMonitor EXCEPT !.pc = "tick"]

\* The monitor after EditMessage: the error is logged, and the exit test looks at the
\* status only. A monitor that goes on keeps err until the next tick assigns it.
AfterEdit(editOk, status) ==
    IF MonitorStops(status) THEN [IdleMonitor EXCEPT !.pc = "done"]
    ELSE [IdleMonitor EXCEPT !.pc = "tick", !.err = ~editOk]

\* A tick: GetAnalysisTask, which ends the monitor when it fails, and the rendering
\* of the record read. Of the record the monitor keeps what the rest of the tick uses.
monitorAnalysisProgress_Read(taskID) ==
    /\ monitor[taskID].pc = "tick"
    /\ \E ok \in BOOLEAN :
         IF ok /\ tasks[taskID] # NoTask
         THEN LET task == tasks[taskID] IN
              /\ monitor' = [monitor EXCEPT ![taskID] =
                               [pc |-> "edit", Status |-> task.Status,
                                progressText |-> formatAnalysisProgress(task),
                                TelegramChatID |-> task.TelegramChatID,
                                MessageID |-> task.MessageID, err |-> FALSE]]
              /\ hist' = [hist EXCEPT ![taskID].termReads =
                            IF Terminal(task.Status) THEN Count(@) ELSE @]
         ELSE /\ monitor' = [monitor EXCEPT ![taskID] = AfterReadError(@)]
              /\ hist' = [hist EXCEPT ![taskID].readFailed = TRUE]
    /\ UNCHANGED <<tasks, issued, request, analysisChannel, sendq, flow, message,
                   worker, batch, top, cached, replies, cachedSent>>
    /\ UNCHANGED <<resumed, registryVars, listenVars>>

\* The rest of the tick: EditMessage, whose failure is only logged, then the exit test.
monitorAnalysisProgress_Edit(taskID) ==
    /\ monitor[taskID].pc = "edit"
    /\ LET m == monitor[taskID] IN
       /\ \E editOk \in BOOLEAN :
            /\ message' = [message EXCEPT ![m.MessageID] =
                             IF editOk THEN m.progressText ELSE @]
            /\ monitor' = [monitor EXCEPT ![taskID] = AfterEdit(editOk, m.Status)]
       /\ hist' = [hist EXCEPT ![taskID].termEdits =
                     IF Terminal(m.Status) /\ m.progressText.view = FinalView(m.Status)
                     THEN Count(@) ELSE @]
    /\ UNCHANGED <<tasks, issued, request, analysisChannel, sendq, flow,
                   worker, batch, top, cached, replies, cachedSent>>
    /\ UNCHANGED <<resumed, registryVars, listenVars>>

monitorAnalysisProgress(taskID) ==
    \/ monitorAnalysisProgress_Read(taskID)
    \/ monitorAnalysisProgress_Edit(taskID)

\* A second call of monitorAnalysisProgress for a task that has, or had, a monitor.
monitorAnalysisProgress_Resume(taskID) ==
    /\ monitor[taskID].pc # "none" /\ resumed[taskID].pc = "none"
    /\ resumed' = [resumed EXCEPT ![taskID] = [IdleMonitor EXCEPT !.pc = "tick"]]
    /\ UNCHANGED <<tasks, issued, request, analysisChannel, sendq, flow, monitor, message,
                   worker, batch, top, cached, replies, cachedSent, hist>>
    /\ UNCHANGED <<registryVars, listenVars>>

\* A tick of the second monitor: the read.
monitorAnalysisProgress_ResumedRead(taskID) ==
    /\ resumed[taskID].pc = "tick"
    /\ \E ok \in BOOLEAN :
         IF ok /\ tasks[taskID] # NoTask
         THEN LET task == tasks[taskID] IN
              resumed' = [resumed EXCEPT ![taskID] =
                            [pc |-> "edit", Status |-> task.Status,
                             progressText |-> formatAnalysisProgress(task),
                             TelegramChatID |-> task.TelegramChatID,
                             MessageID |-> task.MessageID, err |-> FALSE]]
         ELSE resumed' = [resumed EXCEPT ![taskID] = AfterReadError(@)]
    /\ UNCHANGED <<tasks, issued, request, analysisChannel, sendq, flow, monitor, message,
                   worker, batch, top, cached, replies, cachedSent, hist>>
    /\ UNCHANGED <<registryVars, listenVars>>

\* The rest of the tick of the second monitor: the edit and the exit test.
monitorAnalysisProgress_ResumedEdit(taskID) ==
    /\ resumed[taskID].pc = "edit"
    /\ LET m == resumed[taskID] IN
       \E editOk \in BOOLEAN :
         /\ message' = [message EXCEPT ![m.MessageID] =
                          IF editOk THEN m.progressText ELSE @]
         /\ resumed' = [resumed EXCEPT ![taskID] = AfterEdit(editOk, m.Status)]
    /\ UNCHANGED <<tasks, issued, request, analysisChannel, sendq, flow, monitor,
                   worker, batch, top, cached, replies, cachedSent, hist>>
    /\ UNCHANGED <<registryVars, listenVars>>

monitorAnalysisProgress_Resumed(taskID) ==
    \/ monitorAnalysisProgress_ResumedRead(taskID)
    \/ monitorAnalysisProgress_ResumedEdit(taskID)

\* ------------------------------------------------------ the external worker
\* The worker receives the oldest item; a sender parked on the full channel then
\* completes its send and runs to its end.
WorkerReceive ==
    /\ analysisChannel # <<>>
    /\ LET item == Head(analysisChannel) IN
       /\ worker' = [worker EXCEPT ![item.TaskID] = "received"]
       /\ IF sendq = <<>>
          THEN /\ analysisChannel' = Tail(analysisChannel)
               /\ UNCHANGED <<sendq, flow, hist>>
          ELSE LET parked == Head(sendq) IN
               /\ analysisChannel' = Append(Tail(analysisChannel), flow[parked].newMessage)
               /\ sendq' = Tail(sendq)
               /\ flow' = [flow EXCEPT ![parked] = EndFlow(@)]
               /\ hist' = [hist EXCEPT ![parked].enqueued = Count(@)]
    /\ UNCHANGED <<tasks, issued, request, monitor, message, batch, top, cached,
                   replies, cachedSent>>
    /\ UNCHANGED <<resumed, registryVars, listenVars>>

\* The worker advances the task it holds.
WorkerProgress(taskID) ==
    /\ worker[taskID] = "received"
    /\ tasks' = UpdateAnalysisTaskProgress(tasks, taskID, ANALYSIS_STEP_SAVING_RESULTS,
                                           "Saving analysis results...")
    /\ worker' = [worker EXCEPT ![taskID] = "progress"]
    /\ UNCHANGED <<issued, request, analysisChannel, sendq, flow, monitor, message,
                   batch, top, cached, replies, cachedSent, hist>>
    /\ UNCHANGED <<resumed, registryVars, listenVars>>

\* The worker marks the task completed or failed, and never writes to it again.
WorkerFinish(taskID) ==
    /\ worker[taskID] \in {"received", "progress"}
    /\ \E ok \in BOOLEAN :
         tasks' = IF ok
                  THEN IF tasks[taskID] = NoTask THEN tasks
                       ELSE [tasks EXCEPT ![taskID].Status = ANALYSIS_STATUS_COMPLETED,
                                          ![taskID].ProgressText = "Analysis completed"]
                  ELSE SetAnalysisTaskError(tasks, taskID, "Analysis failed")
    /\ worker' = [worker EXCEPT ![taskID] = "finished"]
    /\ UNCHANGED <<issued, request, analysisChannel, sendq, flow, monitor, message,
                   batch, top, cached, replies, cachedSent, hist>>
    /\ UNCHANGED <<resumed, registryVars, listenVars>>

Worker ==
    \/ WorkerReceive
    \/ \E t \in TaskIDs : WorkerProgress(t)
    \/ \E t \in TaskIDs : WorkerFinish(t)

\* -------------------------------------------------- panics in the flows
\* The values a flow is made to panic with.
PanicValues == {"nil pointer dereference", "index out of range"}

\* fmt.Sprintf("Internal error: %v", r)
InternalError(r) ==
    IF r = "nil pointer dereference"
    THEN "Internal error: nil pointer dereference"
    ELSE "Internal error: index out of range"

\* A deferred function that only logs the panic.
Recovered_LogOnly(store, taskID, r) == store

\* The deferred function of a flow once recover() returned r.
Recovered(store, taskID, r) == SetAnalysisTaskError(store, taskID, InternalError(r))

\* The statements of a flow, each of which may panic.
Running(pc) == pc \in {"get", "lookup", "resolve", "ticker", "announce", "offer", "sent",
                        "send"}

\* A statement of processAnalysisTask panics: the deferred function runs and the
\* goroutine ends.
processAnalysisTask_Panic(taskID, r) ==
    /\ flow[taskID].kind = "single" /\ Running(flow[taskID].pc)
    /\ tasks' = Recovered(tasks, taskID, r)
    /\ flow' = [flow EXCEPT ![taskID] = EndFlow(@)]
    /\ hist' = [hist EXCEPT ![taskID].panicked = r]
    /\ UNCHANGED <<issued, request, analysisChannel, sendq, monitor, message,
                   worker, batch, top, cached, replies, cachedSent>>
    /\ UNCHANGED <<resumed, registryVars, listenVars>>

\* The same in processBatchAnalysisTask.
processBatchAnalysisTask_Panic(taskID, r) ==
    /\ flow[taskID].kind = "batch" /\ Running(flow[taskID].pc)
    /\ tasks' = Recovered(tasks, taskID, r)
    /\ flow' = [flow EXCEPT ![taskID] = EndFlow(@)]
    /\ hist' = [hist EXCEPT ![taskID].panicked = r]
    /\ UNCHANGED <<issued, request, analysisChannel, sendq, monitor, message,
                   worker, batch, top, cached, replies, cachedSent>>
    /\ UNCHANGED <<resumed, registryVars, listenVars>>

\* ----------------------------------------------- processBatchAnalysisTask
processBatchAnalysisTask_Get(taskID) ==
    /\ flow[taskID].pc = "get" /\ flow[taskID].kind = "batch"
    /\ \E ok \in BOOLEAN :
         IF ok /\ tasks[taskID] # NoTask
         THEN flow' = [flow EXCEPT ![taskID].task = tasks[taskID],
                                   ![taskID].pc = "lookup"]
         ELSE flow' = [flow EXCEPT ![taskID] = EndFlow(@)]
    /\ UNCHANGED <<tasks, issued, request, analysisChannel, sendq, monitor, message,
                   worker, batch, top, cached, replies, cachedSent, hist>>
    /\ UNCHANGED <<resumed, registryVars, listenVars>>

processBatchAnalysisTask_Lookup(taskID) ==
    /\ flow[taskID].pc = "lookup" /\ flow[taskID].kind = "batch"
    /\ tasks' = UpdateAnalysisTaskProgress(tasks, taskID, ANALYSIS_STEP_USER_LOOKUP,
                                           "Looking up user information...")
    /\ flow' = [flow EXCEPT ![taskID].pc = "resolve"]
    /\ UNCHANGED <<issued, request, analysisChannel, sendq, monitor, message,
                   worker, batch, top, cached, replies, cachedSent, hist>>
    /\ UNCHANGED <<resumed, registryVars, listenVars>>

processBatchAnalysisTask_Resolve(taskID) ==
    /\ flow[taskID].pc = "resolve" /\ flow[taskID].kind = "batch"
    /\ LET username == flow[taskID].task.Username IN
       \E found \in BOOLEAN :
         IF ~found
         THEN /\ flow' = [flow EXCEPT ![taskID].userID = UnknownID(username),
                                      ![taskID].pc = "ticker"]
              /\ UNCHANGED tasks
         ELSE LET task == [flow[taskID].task EXCEPT !.UserID = UserIDOf(username)] IN
              /\ flow' = [flow EXCEPT ![taskID].userID = UserIDOf(username),
                                      ![taskID].task = task,
                                      ![taskID].pc = "ticker"]
              /\ tasks' = UpdateAnalysisTask(tasks, taskID, task)
    /\ UNCHANGED <<issued, request, analysisChannel, sendq, monitor, message,
                   worker, batch, top, cached, replies, cachedSent, hist>>
    /\ UNCHANGED <<resumed, registryVars, listenVars>>

processBatchAnalysisTask_Ticker(taskID) ==
    /\ flow[taskID].pc = "ticker" /\ flow[taskID].kind = "batch"
    /\ tasks' = UpdateAnalysisTaskProgress(tasks, taskID, ANALYSIS_STEP_TICKER_SEARCH,
                                           "Searching for user's ticker mentions...")
    /\ LET username == flow[taskID].task.Username
           targetChatID == flow[taskID].targetChatID
       IN
       \E tweetFound \in BOOLEAN :
         flow' = [flow EXCEPT
                    ![taskID].newMessage =
                        IF tweetFound
                        THEN NewMessage(taskID, UserIDOf(username), FALSE, targetChatID)
                        ELSE NewMessage(taskID, flow[taskID].userID, TRUE, targetChatID),
                    ![taskID].pc = "announce"]
    /\ UNCHANGED <<issued, request, analysisChannel, sendq, monitor, message,
                   worker, batch, top, cached, replies, cachedSent, hist>>
    /\ UNCHANGED <<resumed, registryVars, listenVars>>

processBatchAnalysisTask_Announce(taskID) ==
    /\ flow[taskID].pc = "announce" /\ flow[taskID].kind = "batch"
    /\ tasks' = UpdateAnalysisTaskProgress(tasks, taskID, ANALYSIS_STEP_CLAUDE_ANALYSIS,
                                           "Starting AI analysis...")
    /\ flow' = [flow EXCEPT ![taskID].pc = "send"]
    /\ UNCHANGED <<issued, request, analysisChannel, sendq, monitor, message,
                   worker, batch, top, cached, replies, cachedSent, hist>>
    /\ UNCHANGED <<resumed, registryVars, listenVars>>

\* The channel send: it proceeds when the buffer has room, and parks the goroutine
\* on the channel otherwise (WorkerReceive completes a parked send).
processBatchAnalysisTask_Send(taskID) ==
    /\ flow[taskID].pc = "send" /\ flow[taskID].kind = "batch"
    /\ IF HasRoom(analysisChannel)
       THEN /\ analysisChannel' = Append(analysisChannel, flow[taskID].newMessage)
            /\ flow' = [flow EXCEPT ![taskID] = EndFlow(@)]
            /\ hist' = [hist EXCEPT ![taskID].enqueued = Count(@)]
            /\ UNCHANGED sendq
       ELSE /\ sendq' = Append(sendq, taskID)
            /\ flow' = [flow EXCEPT ![taskID].pc = "blocked"]
            /\ hist' = [hist EXCEPT ![taskID].offeredFull = TRUE]
            /\ UNCHANGED analysisChannel
    /\ UNCHANGED <<tasks, issued, request, monitor, message,
                   worker, batch, top, cached, replies, cachedSent>>
    /\ UNCHANGED <<resumed, registryVars, listenVars>>

processBatchAnalysisTask(taskID) ==
    \/ processBatchAnalysisTask_Get(taskID)
    \/ processBatchAnalysisTask_Lookup(taskID)
    \/ processBatchAnalysisTask_Resolve(taskID)
    \/ processBatchAnalysisTask_Ticker(taskID)
    \/ processBatchAnalysisTask_Announce(taskID)
    \/ processBatchAnalysisTask_Send(taskID)

\* ------------------------------------------------------- /top20_analyze
RECURSIVE Distinct(_)
Distinct(s) == Len(s) <= 1 \/ (Head(s) \notin {s[i] : i \in 2..Len(s)} /\ Distinct(Tail(s)))

\* What GetTopActiveUsers can return: lists of users of the store, none twice.
TopLists == {s \in UNION {[1..n -> Usernames] : n \in 0..MaxTop} : Distinct(s)}

\* handleTop20AnalyzeCommand up to the loop: GetTopActiveUsers and the confirmation.
handleTop20AnalyzeCommand_Start(chatID) ==
    /\ top.pc = "idle"
    /\ Commands < MaxCommands
    /\ \/ /\ replies' = replies \cup {"top_error"}
          /\ top' = [top EXCEPT !.pc = "done", !.chat = chatID]
       \/ \E users \in TopLists :
            IF Len(users) = 0
            THEN /\ replies' = replies \cup {"top_no_users"}
                 /\ top' = [top EXCEPT !.pc = "done", !.chat = chatID]
            ELSE /\ replies' = replies \cup {"top_starting"}
                 /\ top' = [top EXCEPT !.pc = "loop", !.chat = chatID, !.users = users]
    /\ UNCHANGED <<tasks, issued, request, analysisChannel, sendq, flow, monitor,
                   message, worker, batch, cached, cachedSent, hist>>
    /\ UNCHANGED <<resumed, registryVars, listenVars>>

\* One pass of the loop over the users.
handleTop20AnalyzeCommand_Iterate ==
    /\ top.pc = "loop" /\ top.i <= Len(top.users)
    /\ LET username == top.users[top.i]
           userID == UserIDOf(username)
           taskID == generateNotificationID
       IN  IF userID \in cached
           THEN /\ top' = [top EXCEPT !.skippedCount = @ + 1, !.i = @ + 1,
                                      !.outcomes = Append(@, "skipped")]
                /\ UNCHANGED <<tasks, issued, request, flow>>
           ELSE IF issued < MaxTasks
           THEN \E createOk \in BOOLEAN :
                  /\ issued' = issued + 1
                  /\ tasks' = IF createOk
                              THEN [tasks EXCEPT ![taskID] =
                                      NewTask(username, userID, "Queued for analysis...",
                                              top.chat, 0)]
                              ELSE tasks
                  /\ request' = [request EXCEPT ![taskID] =
                                   [kind |-> "top",
                                    outcome |-> IF createOk THEN "admitted" ELSE "createfail"]]
                  /\ flow' = [flow EXCEPT ![taskID] =
                                StartedAfterCreate(createOk, "single", 0)]
                  /\ top' = IF createOk
                            THEN [top EXCEPT !.analysisCount = @ + 1, !.i = @ + 1,
                                             !.outcomes = Append(@, "admitted")]
                            ELSE AfterItemFailure(top)
           ELSE \* no task ID is left in the model: the store rejects the record
                /\ top' = AfterItemFailure(top)
                /\ UNCHANGED <<tasks, issued, request, flow>>
    /\ UNCHANGED <<analysisChannel, sendq, monitor, message, worker, batch, cached,
                   replies, cachedSent, hist>>
    /\ UNCHANGED <<resumed, registryVars, listenVars>>

\* The summary after the loop.
handleTop20AnalyzeCommand_Summary ==
    /\ top.pc = "loop" /\ top.i > Len(top.users)
    /\ replies' = replies \cup {"top_summary"}
    /\ top' = [top EXCEPT !.pc = "done"]
    /\ UNCHANGED <<tasks, issued, request, analysisChannel, sendq, flow, monitor,
                   message, worker, batch, cached, cachedSent, hist>>
    /\ UNCHANGED <<resumed, registryVars, listenVars>>

\* ------------------------------------------------------- /batch_analyze
\* The cleaning loop over the comma-separated entries: the valid and the invalid
\* usernames, in the order of the list.
\* A cleaning loop that drops the invalid entries without keeping them for the report.
RECURSIVE CleanUsernames_Silent(_, _, _)
CleanUsernames_Silent(usernames, validUsernames, invalidUsernames) ==
    IF usernames = <<>>
    THEN [valid |-> validUsernames, invalid |-> invalidUsernames]
    ELSE LET username == TrimPrefixAt(TrimSpace(Head(usernames))) IN
         IF username = <<>> \/ Len(username) > MaxUsernameLen \/ ContainsSpace(username)
         THEN CleanUsernames_Silent(Tail(usernames), validUsernames, invalidUsernames)
         ELSE CleanUsernames_Silent(Tail(usernames), Append(validUsernames, username),
                                    invalidUsernames)

RECURSIVE CleanUsernames(_, _, _)
CleanUsernames(usernames, validUsernames, invalidUsernames) ==
    IF usernames = <<>>
    THEN [valid |-> validUsernames, invalid |-> invalidUsernames]
    ELSE LET username == TrimPrefixAt(TrimSpace(Head(usernames))) IN
         IF username = <<>>
         THEN CleanUsernames(Tail(usernames), validUsernames, invalidUsernames)
         ELSE IF Len(username) > MaxUsernameLen \/ ContainsSpace(username)
         THEN CleanUsernames(Tail(usernames), validUsernames,
                             Append(invalidUsernames, username))
         ELSE CleanUsernames(Tail(usernames), Append(validUsernames, username),
                             invalidUsernames)

\* A handler without the size check.
TooMany_Never(validUsernames) == FALSE

\* len(validUsernames) > 20
TooMany(validUsernames) == Len(validUsernames) > MaxBatchUsers

\* handleBatchAnalyzeCommand up to the loop. usernames is the list after
\* strings.Split(strings.Join(args, " "), ","); it is empty when args is.
handleBatchAnalyzeCommand_Start(chatID, usernames) ==
    /\ batch.pc = "idle"
    /\ Commands < MaxCommands
    /\ IF Len(usernames) = 0
       THEN /\ replies' = replies \cup {"batch_usage"}
            /\ batch' = [batch EXCEPT !.pc = "done", !.chat = chatID]
       ELSE LET cleaned == CleanUsernames(usernames, <<>>, <<>>) IN
            IF Len(cleaned.valid) = 0
            THEN /\ replies' = replies \cup {"batch_no_valid"}
                 /\ batch' = [batch EXCEPT !.pc = "done", !.chat = chatID,
                                           !.usernames = usernames,
                                           !.invalid = cleaned.invalid]
            ELSE IF TooMany(cleaned.valid)
            THEN /\ replies' = replies \cup {"batch_too_many"}
                 /\ batch' = [batch EXCEPT !.pc = "done", !.chat = chatID,
                                           !.usernames = usernames,
                                           !.valid = cleaned.valid,
                                           !.invalid = cleaned.invalid]
            ELSE \* the confirmation lists the valid and, under their own heading,
                 \* the invalid usernames
                 /\ replies' = replies \cup {"batch_starting"}
                 /\ batch' = [batch EXCEPT !.pc = "loop", !.chat = chatID,
                                           !.usernames = usernames,
                                           !.valid = cleaned.valid,
                                           !.invalid = cleaned.invalid,
                                           !.confirmed = cleaned.invalid]
    /\ UNCHANGED <<tasks, issued, request, analysisChannel, sendq, flow, monitor,
                   message, worker, top, cached, cachedSent, hist>>
    /\ UNCHANGED <<resumed, registryVars, listenVars>>

\* One pass of the loop over validUsernames: the cache check with the cached
\* notification (sendCachedBatchNotification), or the task record and its flow.
handleBatchAnalyzeCommand_Iterate ==
    /\ batch.pc = "loop" /\ batch.i <= Len(batch.valid)
    /\ LET username == batch.valid[batch.i]
           taskID == generateNotificationID
       IN  \E found \in BOOLEAN :
           IF found /\ UserIDOf(username) \in cached
           THEN /\ batch' = [batch EXCEPT !.skippedCount = @ + 1, !.i = @ + 1,
                                          !.hits = @ \cup {username},
                                          !.outcomes = Append(@, "skipped")]
                /\ \E readOk \in BOOLEAN :
                     cachedSent' = IF readOk
                                   THEN [cachedSent EXCEPT ![username] = @ + 1]
                                   ELSE cachedSent
                /\ UNCHANGED <<tasks, issued, request, flow>>
           ELSE IF issued < MaxTasks
           THEN \E createOk \in BOOLEAN :
                  /\ issued' = issued + 1
                  /\ tasks' = IF createOk
                              THEN [tasks EXCEPT ![taskID] =
                                      NewTask(username,
                                              IF found THEN UserIDOf(username) ELSE NoUserID,
                                              "Queued for batch analysis...", batch.chat, 0)]
                              ELSE tasks
                  /\ request' = [request EXCEPT ![taskID] =
                                   [kind |-> "batch",
                                    outcome |-> IF createOk THEN "admitted" ELSE "createfail"]]
                  /\ flow' = [flow EXCEPT ![taskID] =
                                StartedAfterCreate(createOk, "batch", batch.chat)]
                  /\ batch' = IF createOk
                              THEN [batch EXCEPT !.analysisCount = @ + 1, !.i = @ + 1,
                                                 !.outcomes = Append(@, "admitted")]
                              ELSE AfterItemFailure(batch)
                  /\ UNCHANGED cachedSent
           ELSE \* no task ID is left in the model: the store rejects the record
                /\ batch' = AfterItemFailure(batch)
                /\ UNCHANGED <<tasks, issued, request, flow, cachedSent>>
    /\ UNCHANGED <<analysisChannel, sendq, monitor, message, worker, top, cached,
                   replies, hist>>
    /\ UNCHANGED <<resumed, registryVars, listenVars>>

\* A summary that waits until every dispatch flow has returned.
handleBatchAnalyzeCommand_Summary_Waits ==
    /\ batch.pc = "loop" /\ batch.i > Len(batch.valid)
    /\ \A t \in TaskIDs : flow[t].pc \in {"none", "done"}
    /\ replies' = replies \cup {"batch_summary"}
    /\ batch' = [batch EXCEPT !.pc = "done"]
    /\ UNCHANGED <<tasks, issued, request, analysisChannel, sendq, flow, monitor,
                   message, worker, top, cached, cachedSent, hist>>
    /\ UNCHANGED <<resumed, registryVars, listenVars>>

\* The summary after the loop.
handleBatchAnalyzeCommand_Summary ==
    /\ batch.pc = "loop" /\ batch.i > Len(batch.valid)
    /\ replies' = replies \cup {"batch_summary"}
    /\ batch' = [batch EXCEPT !.pc = "done"]
    /\ UNCHANGED <<tasks, issued, request, analysisChannel, sendq, flow, monitor,
                   message, worker, top, cached, cachedSent, hist>>
    /\ UNCHANGED <<resumed, registryVars, listenVars>>

\* ------------------------------------------- the registries of the service
\* The chats that updates come from.
UpdateChats == {1, 2}

\* A Go map: the value under a key (the zero value FALSE for a missing key), and
\* the map after an assignment.
EmptyMap == [k \in {} |-> TRUE]
Has(m, k) == IF k \in DOMAIN m THEN m[k] ELSE FALSE
Put(m, k, v) == [x \in DOMAIN m \cup {k} |-> IF x = k THEN v ELSE m[x]]

Digit(c) ==
    CASE c = "0" -> 0 [] c = "1" -> 1 [] c = "2" -> 2 [] c = "3" -> 3 [] c = "4" -> 4
      [] c = "5" -> 5 [] c = "6" -> 6 [] c = "7" -> 7 [] c = "8" -> 8 [] c = "9" -> 9
      [] OTHER -> -1

RECURSIVE Decimal(_)
Decimal(s) ==
    IF s = <<>> THEN 0 ELSE 10 * Decimal(SubSeq(s, 1, Len(s) - 1)) + Digit(s[Len(s)])

\* strconv.ParseInt(s, 10, 64), for numbers far from the ends of int64
ParseInt(s) ==
    LET signed == s # <<>> /\ Head(s) \in {"+", "-"}
        digits == IF signed THEN Tail(s) ELSE s
    IN  IF digits = <<>> \/ \E i \in 1..Len(digits) : Digit(digits[i]) < 0
        THEN [err |-> TRUE, value |-> 0]
        ELSE [err |-> FALSE,
              value |-> IF signed /\ Head(s) = "-" THEN 0 - Decimal(digits)
                        ELSE Decimal(digits)]

\* NewTelegramService: the loop over strings.Split(initialChatIDs, ",").
RECURSIVE NewChatIDs(_, _)
NewChatIDs(chatIDStrings, m) ==
    IF chatIDStrings = <<>> THEN m
    ELSE LET chatIDStr == TrimSpace(Head(chatIDStrings))
             parsed == ParseInt(chatIDStr)
         IN  IF chatIDStr # <<>> /\ ~parsed.err
             THEN NewChatIDs(Tail(chatIDStrings), Put(m, parsed.value, TRUE))
             ELSE NewChatIDs(Tail(chatIDStrings), m)

\* The values of initialChatIDs that are tried, as the entries between the commas
\* (none for the empty string).
InitialConfigs ==
    {<<>>, << <<"1">> >>, << <<" ", "1">>, <<"x">>, <<"1">> >>, << <<"2">>, <<>> >>}

IdlePoll == [pc |-> "idle", updates |-> <<>>, seen |-> {}, rounds |-> 0,
             info |-> [c \in UpdateChats |-> 0]]
IdleBc == [pc |-> "idle", visited |-> {}, snapshot |-> {}, errors |-> 0,
           failed |-> {}, returned |-> "none"]
NoDetail == [command |-> <<>>, reply |-> Text("none")]
\* The goroutines of StartListening, and one that was not started yet.
Listeners == 1..MaxListeners
IdleListener == [pc |-> "none", updates |-> <<>>, abandoned |-> <<>>]
\* The update IDs Telegram gives out, and an update no loop has seen.
UpdateIDs == 1..MaxInbox
NoDispatch == [visits |-> 0, handlers |-> 0, handler |-> "none", reply |-> Text("none")]

\* The registries after NewTelegramService(..., initialChatIDs, ...).
InitService(chatIDStrings) ==
    /\ initialChatIDs = chatIDStrings
    /\ chatIDs = NewChatIDs(chatIDStrings, EmptyMap)
    /\ chatMutex = 0
    /\ poll = IdlePoll
    /\ bc = IdleBc
    /\ listed = {}
    /\ notifications = EmptyMap
    /\ stored = <<>>
    /\ detail = NoDetail
    /\ isRunning = FALSE
    /\ listeners = [l \in Listeners |-> IdleListener]
    /\ lastOffset = 0
    /\ telegram = [updates |-> <<>>, confirmed |-> 0]
    /\ dispatched = [id \in UpdateIDs |-> NoDispatch]

Init == InitTasks /\ InitService(<<>>)

RegistryInit ==
    /\ InitTasks
    /\ cached = {}
    /\ \E chatIDStrings \in InitialConfigs : InitService(chatIDStrings)

\* A registration that forgets the chats registered before.
Register_Reset(m, chatID) == Put(EmptyMap, chatID, TRUE)

\* processUpdates: if !t.chatIDs[chatID] { t.chatIDs[chatID] = true ... }
Register(m, chatID) == IF ~Has(m, chatID) THEN Put(m, chatID, TRUE) ELSE m

\* A loop that answers every update with the "Chat registered!" message.
Confirms_Always(m, chatID) == TRUE

\* processUpdates: "go t.SendMessage(chatID, info)" is inside the same if.
Confirms(m, chatID) == ~Has(m, chatID)

\* What getUpdates can return: the chats of the updates, in order.
UpdateLists == UNION {[1..n -> UpdateChats] : n \in 0..MaxUpdates}

\* processUpdates: getUpdates, whose error ends the call.
processUpdates_Get ==
    /\ poll.pc = "idle" /\ poll.rounds < MaxPolls
    /\ \/ poll' = [poll EXCEPT !.rounds = @ + 1]
       \/ \E updates \in UpdateLists :
            poll' = [poll EXCEPT !.rounds = @ + 1, !.updates = updates,
                                 !.pc = IF updates = <<>> THEN "idle" ELSE "update"]
    /\ UNCHANGED <<initialChatIDs, chatIDs, chatMutex, bc, listed, notifications,
                   stored, detail>>
    /\ UNCHANGED <<taskVars, listenVars>>

\* The section of processUpdates between chatMutex.Lock() and Unlock() for the
\* first update left, and the step to the next update. The command of the update
\* is handed to its handler in a goroutine of its own.
Registered ==
    /\ chatIDs' = Register(chatIDs, Head(poll.updates))
    /\ poll' = [poll EXCEPT !.seen = @ \cup {Head(poll.updates)},
                            !.info[Head(poll.updates)] =
                                IF Confirms(chatIDs, Head(poll.updates)) THEN @ + 1 ELSE @,
                            !.updates = Tail(@),
                            !.pc = IF Tail(poll.updates) = <<>> THEN "idle" ELSE "update"]

\* processUpdates at chatMutex.Lock(): the lock is taken when no reader holds it,
\* otherwise the goroutine waits for the readers.
processUpdates_Lock ==
    /\ poll.pc = "update"
    /\ IF chatMutex = 0
       THEN Registered
       ELSE poll' = [poll EXCEPT !.pc = "waiting"] /\ UNCHANGED chatIDs
    /\ UNCHANGED <<initialChatIDs, chatMutex, bc, listed, notifications, stored, detail>>
    /\ UNCHANGED <<taskVars, listenVars>>

\* The waiting Lock() returns once the last reader has released the mutex.
processUpdates_Locked ==
    /\ poll.pc = "waiting" /\ chatMutex = 0
    /\ Registered
    /\ UNCHANGED <<initialChatIDs, chatMutex, bc, listed, notifications, stored, detail>>
    /\ UNCHANGED <<taskVars, listenVars>>

\* GetRegisteredChats: the keys copied under the read lock, which a waiting
\* writer keeps new readers from taking.
GetRegisteredChats ==
    /\ poll.pc # "waiting"
    /\ listed' = DOMAIN chatIDs
    /\ UNCHANGED <<initialChatIDs, chatIDs, chatMutex, poll, bc, notifications,
                   stored, detail>>
    /\ UNCHANGED <<taskVars, listenVars>>

\* ---------------------------------------------------------- notifications
\* hex.EncodeToString of the random bytes: every string of that length can come out.
IDChars == {"a", "b"}
NotificationIDs == {<<c>> : c \in IDChars}
Alerts == {"alert1", "alert2"}
\* The zero FUDAlertNotification.
ZeroAlert == ""

\* StoreAndBroadcastNotification up to the call of BroadcastMessage.
StoreAndBroadcastNotification_Store(alert) ==
    /\ bc.pc = "idle" /\ Len(stored) < MaxStores
    /\ \E notificationID \in NotificationIDs :
         /\ notifications' = Put(notifications, notificationID, alert)
         /\ stored' = Append(stored, [id |-> notificationID, alert |-> alert,
                                      sentTo |-> {}])
    /\ bc' = [IdleBc EXCEPT !.pc = "rlock"]
    /\ UNCHANGED <<initialChatIDs, chatIDs, chatMutex, poll, listed, detail>>
    /\ UNCHANGED <<taskVars, listenVars>>

\* A range over t.chatIDs that the first failed send ends.
Remaining_UntilError(b) == IF b.errors > 0 THEN {} ELSE DOMAIN chatIDs \ b.visited

\* The chats the range over t.chatIDs has still to visit.
Remaining(b) == DOMAIN chatIDs \ b.visited

\* What BroadcastMessage returns after the range: an error when errors is not empty.
BroadcastResult(errors) == IF errors > 0 THEN "error" ELSE "nil"

\* BroadcastMessage: RLock, and the return when no chat is registered. A call that
\* returned leaves what it visited and returned to be looked at.
BroadcastMessage_Begin ==
    /\ bc.pc = "rlock" /\ poll.pc # "waiting"
    /\ IF DOMAIN chatIDs = {}
       THEN bc' = [IdleBc EXCEPT !.returned = "nil"] /\ UNCHANGED chatMutex
       ELSE /\ chatMutex' = chatMutex + 1
            /\ bc' = [bc EXCEPT !.pc = "sending", !.snapshot = DOMAIN chatIDs]
    /\ UNCHANGED <<initialChatIDs, chatIDs, poll, listed, notifications, stored, detail>>
    /\ UNCHANGED <<taskVars, listenVars>>

\* One pass of the range over t.chatIDs: SendMessage to a chat not yet visited.
\* The text is the one StoreAndBroadcastNotification formatted with the ID of its
\* store, the last one so far.
BroadcastMessage_Send ==
    /\ bc.pc = "sending"
    /\ \E chatID \in Remaining(bc), sendOk \in BOOLEAN :
         /\ bc' = [bc EXCEPT !.visited = @ \cup {chatID},
                             !.errors = IF sendOk THEN @ ELSE @ + 1,
                             !.failed = IF sendOk THEN @ ELSE @ \cup {chatID}]
         /\ stored' = IF sendOk
                      THEN [stored EXCEPT ![Len(stored)].sentTo = @ \cup {chatID}]
                      ELSE stored
    /\ UNCHANGED <<initialChatIDs, chatIDs, chatMutex, poll, listed, notifications,
                   detail>>
    /\ UNCHANGED <<taskVars, listenVars>>

\* The end of the range and the deferred RUnlock.
BroadcastMessage_End ==
    /\ bc.pc = "sending" /\ Remaining(bc) = {}
    /\ chatMutex' = chatMutex - 1
    /\ bc' = [bc EXCEPT !.pc = "idle", !.returned = BroadcastResult(bc.errors)]
    /\ UNCHANGED <<initialChatIDs, chatIDs, poll, listed, notifications, stored, detail>>
    /\ UNCHANGED <<taskVars, listenVars>>

\* ------------------------------------------------------------ /detail_<id>
\* strings.Split(s, sep) for a one-character separator
RECURSIVE Split(_, _)
Split(s, sep) ==
    IF \A i \in 1..Len(s) : s[i] # sep
    THEN <<s>>
    ELSE LET k == CHOOSE i \in 1..Len(s) : s[i] = sep /\ \A j \in 1..(i - 1) : s[j] # sep
         IN  <<SubSeq(s, 1, k - 1)>> \o Split(SubSeq(s, k + 1, Len(s)), sep)

\* ----------------------------------------------- the commands of updates
\* strings.Fields(s): the runs of s between white space
RECURSIVE Fields(_)
Fields(s) ==
    LET t == TrimLeft(s) IN
    IF t = <<>> THEN <<>>
    ELSE LET k == IF ContainsSpace(t)
                  THEN CHOOSE i \in 1..Len(t) :
                           IsSpace(t[i]) /\ \A j \in 1..(i - 1) : ~IsSpace(t[j])
                  ELSE Len(t) + 1
         IN  <<SubSeq(t, 1, k - 1)>> \o Fields(SubSeq(t, k, Len(t)))

\* strings.HasPrefix(s, prefix)
HasPrefix(s, prefix) == Len(s) >= Len(prefix) /\ SubSeq(s, 1, Len(prefix)) = prefix

\* The texts of the updates that are tried: no text, white space, a command
\* without an argument, and the examples of the help message. A word such as
\* "/history" or "john" stands for its characters, none of them an underscore.
john == <<"john">>
john_doe == <<"john", "_", "doe">>
HistoryCommand(username) == <<"/history", "_">> \o username
TickerHistoryCommand(username) == <<"/ticker", "_", "history", "_">> \o username
ExportCommand(username) == <<"/export", "_">> \o username
UpdateTexts ==
    {<<>>, <<" ">>, <<"/help">>, HistoryCommand(john), HistoryCommand(john_doe),
     TickerHistoryCommand(john_doe), ExportCommand(john_doe)}

\* processUpdates, from "if update.Message.Text != """ to the end of the switch:
\* the handler that is started for the text of an update, "none" for an update
\* without text and "return" where processUpdates returns.
Handler(Text_) ==
    IF Text_ = <<>> THEN "none"
    ELSE LET text == TrimSpace(Text_)
             parts == Fields(text)
         IN  IF Len(parts) = 0 THEN "return"
             ELSE LET command == parts[1] IN
                  IF HasPrefix(command, <<"/detail", "_">>) THEN "handleDetailCommand"
                  ELSE IF HasPrefix(command, <<"/history", "_">>)
                  THEN "handleHistoryCommand"
                  ELSE IF HasPrefix(command, <<"/export", "_">>)
                  THEN "handleExportCommand"
                  ELSE IF HasPrefix(command, <<"/ticker", "_", "history", "_">>)
                  THEN "handleTickerHistoryCommand"
                  ELSE IF command = <<"/analyze">> THEN "handleAnalyzeCommand"
                  ELSE IF command = <<"/search">> THEN "handleSearchCommand"
                  ELSE IF command = <<"/import">> THEN "handleImportCommand"
                  ELSE IF command = <<"/notify">> THEN "handleNotifyCommand"
                  ELSE IF command = <<"/fudlist">> THEN "handleFudListCommand"
                  ELSE IF command = <<"/tasks">> THEN "handleTasksCommand"
                  ELSE IF command = <<"/top20", "_", "analyze">>
                  THEN "handleTop20AnalyzeCommand"
                  ELSE IF command = <<"/batch", "_", "analyze">>
                  THEN "handleBatchAnalyzeCommand"
                  ELSE "handleHelpCommand"

\* The reply of a handler that got as far as the username: the user it asks the
\* database about.
UserReply(view, username) == [view |-> view, emoji |-> "", text |-> username]

\* handleHistoryCommand, up to "username := parts[1]"
handleHistoryCommand(command) ==
    LET parts == Split(command, "_") IN
    IF Len(parts) # 2 THEN Text("invalid_format")
    ELSE UserReply("history", parts[2])

\* handleTickerHistoryCommand, up to "username := parts[2]"
handleTickerHistoryCommand(command) ==
    LET parts == Split(command, "_") IN
    IF Len(parts) # 3 THEN Text("invalid_format")
    ELSE UserReply("ticker_history", parts[3])

\* handleExportCommand, up to "username := parts[1]"
handleExportCommand(command) ==
    LET parts == Split(command, "_") IN
    IF Len(parts) # 2 THEN Text("invalid_format")
    ELSE UserReply("export", parts[2])

\* What the handler started for a text answers, for the three handlers above;
\* each is called with the trimmed text of the message.
HandlerReply(handler, text) ==
    IF handler = "handleHistoryCommand" THEN handleHistoryCommand(text)
    ELSE IF handler = "handleTickerHistoryCommand" THEN handleTickerHistoryCommand(text)
    ELSE IF handler = "handleExportCommand" THEN handleExportCommand(text)
    ELSE Text("none")

\* ------------------------------------------- StartListening, StopListening
\* StartListening: nothing when isRunning is set; otherwise the flag is set and
\* the polling goroutine is started.
StartListening ==
    /\ IF isRunning
       THEN UNCHANGED <<isRunning, listeners>>
       ELSE /\ \E l \in Listeners :
                 /\ listeners[l].pc = "none"
                 /\ \A k \in Listeners : k < l => listeners[k].pc # "none"
                 /\ listeners' = [listeners EXCEPT ![l].pc = "test"]
            /\ isRunning' = TRUE
    /\ UNCHANGED <<lastOffset, telegram, dispatched, taskVars, registryVars>>

\* StopListening clears the flag.
StopListening ==
    /\ isRunning' = FALSE
    /\ UNCHANGED <<listeners, lastOffset, telegram, dispatched, taskVars, registryVars>>

\* A message to the bot reaches Telegram, which numbers the updates in order.
Incoming(chatID, text) ==
    /\ Len(telegram.updates) < MaxInbox
    /\ telegram' = [telegram EXCEPT !.updates =
                      Append(@, [UpdateID |-> Len(@) + 1, chatID |-> chatID,
                                 Text |-> text])]
    /\ UNCHANGED <<isRunning, listeners, lastOffset, dispatched, taskVars, registryVars>>

\* The goroutine at "for t.isRunning".
StartListening_Loop(l) ==
    /\ listeners[l].pc = "test"
    /\ listeners' = [listeners EXCEPT ![l].pc = IF isRunning THEN "get" ELSE "done"]
    /\ UNCHANGED <<isRunning, lastOffset, telegram, dispatched, taskVars, registryVars>>

\* Telegram's answer to getUpdates?offset=n: the updates numbered n and above
\* that no earlier request confirmed; those below n are confirmed by the request.
Confirmed(offset) == IF offset > telegram.confirmed THEN offset ELSE telegram.confirmed
Result(offset) ==
    SelectSeq(telegram.updates, LAMBDA update : update.UpdateID >= Confirmed(offset))

\* The goroutine in processUpdates: getUpdates with t.lastOffset, whose error
\* ends the call.
StartListening_Get(l) ==
    /\ listeners[l].pc = "get"
    /\ \/ /\ listeners' = [listeners EXCEPT ![l].pc = "sleep"]
          /\ UNCHANGED telegram
       \/ /\ listeners' = [listeners EXCEPT
                            ![l].updates = Result(lastOffset),
                            ![l].pc = IF Result(lastOffset) = <<>>
                                      THEN "sleep" ELSE "update"]
          /\ telegram' = [telegram EXCEPT !.confirmed = Confirmed(lastOffset)]
    /\ UNCHANGED <<isRunning, lastOffset, dispatched, taskVars, registryVars>>

\* An offset that does not move past the update.
NextOffset_Same(update) == update.UpdateID

\* processUpdates: t.lastOffset = update.UpdateID + 1
NextOffset(update) == update.UpdateID + 1

\* The updates of the batch that the loop still goes through after an update
\* with this handler: none after the "return nil".
RestOfBatch(updates, handler) == IF handler = "return" THEN <<>> ELSE Tail(updates)

\* The goroutine in the loop of processUpdates, for the first update left: the
\* offset, the registration of the chat under chatMutex, and the handler started
\* for the text.
StartListening_Update(l) ==
    /\ listeners[l].pc = "update" /\ chatMutex = 0
    /\ LET update == Head(listeners[l].updates)
           handler == Handler(update.Text)
           rest == RestOfBatch(listeners[l].updates, handler)
       IN  /\ lastOffset' = NextOffset(update)
           /\ chatIDs' = Register(chatIDs, update.chatID)
           /\ dispatched' = [dispatched EXCEPT ![update.UpdateID] =
                  IF handler \in {"none", "return"}
                  THEN [@ EXCEPT !.visits = Count(@)]
                  ELSE [visits |-> Count(@.visits), handlers |-> Count(@.handlers),
                        handler |-> handler,
                        reply |-> HandlerReply(handler, TrimSpace(update.Text))]]
           /\ listeners' = [listeners EXCEPT
                              ![l].updates = rest,
                              ![l].abandoned = IF handler = "return"
                                               THEN Tail(listeners[l].updates) ELSE @,
                              ![l].pc = IF rest = <<>> THEN "sleep" ELSE "update"]
    /\ UNCHANGED <<initialChatIDs, chatMutex, poll, bc, listed, notifications, stored,
                   detail>>
    /\ UNCHANGED <<isRunning, telegram, taskVars>>

\* time.Sleep(2 * time.Second) is over.
StartListening_Wake(l) ==
    /\ listeners[l].pc = "sleep"
    /\ listeners' = [listeners EXCEPT ![l].pc = "test"]
    /\ UNCHANGED <<isRunning, lastOffset, telegram, dispatched, taskVars, registryVars>>

\* The text of a /detail_ command; "/detail" stands for its seven characters.
DetailCommand(id) == <<"/detail", "_">> \o id
DetailCommands ==
    {DetailCommand(id) : id \in NotificationIDs \cup {<<"c">>, <<>>, <<"a", "_", "b">>}}

\* A lookup that does not look at the second result of the map read.
DetailReply_NoExists(store, command) ==
    LET parts == Split(command, "_") IN
    IF Len(parts) # 2 THEN Text("invalid_format")
    ELSE [view |-> "detail", emoji |-> "",
          text |-> IF parts[2] \in DOMAIN store THEN store[parts[2]] ELSE ZeroAlert]

\* handleDetailCommand: the reply to a command.
DetailReply(store, command) ==
    LET parts == Split(command, "_") IN
    IF Len(parts) # 2 THEN Text("invalid_format")
    ELSE LET notificationID == parts[2]
             exists == notificationID \in DOMAIN store
             alert == IF exists THEN store[notificationID] ELSE ZeroAlert
         IN  IF ~exists THEN Text("not_found")
             ELSE [view |-> "detail", emoji |-> "", text |-> alert]

handleDetailCommand(chatID, command) ==
    /\ detail' = [command |-> command, reply |-> DetailReply(notifications, command)]
    /\ UNCHANGED <<initialChatIDs, chatIDs, chatMutex, poll, bc, listed, notifications,
                   stored>>
    /\ UNCHANGED <<taskVars, listenVars>>

\* ------------------------------------------------------------------ Next
\* The arguments of /analyze and the lists of /batch_analyze that are tried.
AnalyzeArgs == {<<u>> : u \in Usernames}
\* Entries that the cleaning loop changes, drops or rejects.
padded == <<" ", "@", "b", " ">>
blank == <<" ">>
spaced == <<"a", " ", "b">>
overlong == [i \in 1..(MaxUsernameLen + 1) |-> "x"]
BatchLists ==
    UNION {[1..n -> Usernames] : n \in 0..MaxBatch}
    \cup {<<padded, alice>>, <<blank, alice>>, <<spaced, alice>>, <<overlong, bob>>,
          <<spaced, overlong>>}
    \cup {[i \in 1..(MaxBatchUsers + 1) |-> u] : u \in Usernames}

\* /analyze with its flow and monitor, and the worker.
NextAnalyze ==
    \/ \E c \in Chats, args \in AnalyzeArgs : handleAnalyzeCommand(c, args)
    \/ \E t \in TaskIDs : processAnalysisTask(t)
    \/ \E t \in TaskIDs : monitorAnalysisProgress(t)
    \/ Worker

\* /top20_analyze and /batch_analyze with the flows of the batch.
NextBatch ==
    \/ \E c \in Chats : handleTop20AnalyzeCommand_Start(c)
    \/ handleTop20AnalyzeCommand_Iterate
    \/ handleTop20AnalyzeCommand_Summary
    \/ \E c \in Chats, l \in BatchLists : handleBatchAnalyzeCommand_Start(c, l)
    \/ handleBatchAnalyzeCommand_Iterate
    \/ handleBatchAnalyzeCommand_Summary
    \/ \E t \in TaskIDs : processBatchAnalysisTask(t)

Next == NextAnalyze \/ NextBatch

Spec == Init /\ [][Next]_vars

\* /analyze alone, every started monitor taking its next step sooner or later
\* (the ticker fires every second and no call of the monitor blocks for ever).
FairSpec ==
    /\ Init
    /\ [][NextAnalyze]_vars
    /\ \A t \in TaskIDs : WF_vars(monitorAnalysisProgress(t))

\* Every path, the goroutines of the two list handlers taking their next step
\* sooner or later; nothing is asked of the dispatch flows and of the worker.
FairHandlerSpec ==
    /\ Init
    /\ [][Next]_vars
    /\ WF_vars(handleBatchAnalyzeCommand_Iterate \/ handleBatchAnalyzeCommand_Summary)
    /\ WF_vars(handleTop20AnalyzeCommand_Iterate \/ handleTop20AnalyzeCommand_Summary)

\* Every path, with flows that may panic.
NextPanic ==
    \/ Next
    \/ \E t \in TaskIDs, r \in PanicValues : processAnalysisTask_Panic(t, r)
    \/ \E t \in TaskIDs, r \in PanicValues : processBatchAnalysisTask_Panic(t, r)

PanicSpec == Init /\ [][NextPanic]_vars

\* StoreAndBroadcastNotification with its broadcast.
StoreAndBroadcastNotification ==
    \/ \E alert \in Alerts : StoreAndBroadcastNotification_Store(alert)
    \/ BroadcastMessage_Begin
    \/ BroadcastMessage_Send
    \/ BroadcastMessage_End

\* The registry of chats: the polling loop, the broadcasts and the listing.
NextRegistry ==
    \/ processUpdates_Get
    \/ processUpdates_Lock
    \/ processUpdates_Locked
    \/ GetRegisteredChats
    \/ StoreAndBroadcastNotification

RegistrySpec == RegistryInit /\ [][NextRegistry]_vars

\* The registry of notifications: the stores and the /detail_ lookups.
NextNotifications ==
    \/ StoreAndBroadcastNotification
    \/ \E c \in UpdateChats, command \in DetailCommands : handleDetailCommand(c, command)

NotificationSpec == RegistryInit /\ [][NextNotifications]_vars

\* /analyze with a second monitor for the task.
NextResume ==
    \/ NextAnalyze
    \/ \E t \in TaskIDs : monitorAnalysisProgress_Resume(t)
    \/ \E t \in TaskIDs : monitorAnalysisProgress_Resumed(t)

ResumeSpec == Init /\ [][NextResume]_vars

\* The calls of StartListening and StopListening and the polling goroutines.
NextListening ==
    \/ StartListening
    \/ StopListening
    \/ \E l \in Listeners : StartListening_Loop(l)
    \/ \E l \in Listeners : StartListening_Get(l)
    \/ \E l \in Listeners : StartListening_Update(l)
    \/ \E l \in Listeners : StartListening_Wake(l)
    \/ \E c \in UpdateChats, text \in UpdateTexts : Incoming(c, text)

ListeningSpec == RegistryInit /\ [][NextListening]_vars

\* -------------------------------------------------------------- properties
\* The task has an item in the buffer of the channel.
InChannel(taskID) ==
    \E i \in 1..Len(analysisChannel) : analysisChannel[i].TaskID = taskID

\* The task's flow is parked on the channel.
Parked(taskID) == \E i \in 1..Len(sendq) : sendq[i] = taskID

\* C1: in every admission path, a task whose item was offered to the full channel
\* has a record with status failed and a non-empty error message.
C1_FullQueueFails ==
    \A t \in TaskIDs :
        hist[t].offeredFull =>
            /\ tasks[t] # NoTask
            /\ tasks[t].Status = ANALYSIS_STATUS_FAILED
            /\ tasks[t].ErrorMessage # ""

\* C2: the enqueue attempt never waits: no dispatch flow is ever blocked on the
\* analysis channel.
C2_NoFlowBlocked ==
    \A t \in TaskIDs : flow[t].pc # "blocked" /\ ~Parked(t)

\* C3: every /analyze request with a non-empty username leaves a record in the
\* task store, also when the initial progress message cannot be sent (the requests
\* whose record the store itself rejected are left out).
C3_AnalyzeLeavesRecord ==
    \A t \in TaskIDs :
        (request[t].kind = "analyze" /\ request[t].outcome # "createfail") =>
            tasks[t] # NoTask

\* C4: once a record is completed or failed, no step changes its status, its
\* current step or its progress text.
C4_TerminalImmutable ==
    [][\A t \in TaskIDs :
         (tasks[t] # NoTask /\ Terminal(tasks[t].Status)) =>
             /\ tasks'[t].Status = tasks[t].Status
             /\ tasks'[t].CurrentStep = tasks[t].CurrentStep
             /\ tasks'[t].ProgressText = tasks[t].ProgressText]_vars

\* C5: the monitor reads a terminal status at most once; on that tick it makes
\* exactly one edit, which renders that status, and then it has ended; an ended
\* monitor reads nothing and edits nothing.
C5_OneTerminalEdit ==
    /\ [](\A t \in TaskIDs :
            /\ hist[t].termReads <= 1
            /\ hist[t].termReads = 0 => hist[t].termEdits = 0
            /\ hist[t].termReads = 1 =>
                 \/ /\ monitor[t].pc = "edit"
                    /\ Terminal(monitor[t].Status)
                    /\ hist[t].termEdits = 0
                 \/ /\ monitor[t].pc = "done"
                    /\ hist[t].termEdits = 1)
    /\ [][\A t \in TaskIDs :
            monitor[t].pc = "done" =>
                /\ monitor'[t] = monitor[t]
                /\ message'[t] = message[t]
                /\ hist'[t].termReads = hist[t].termReads
                /\ hist'[t].termEdits = hist[t].termEdits]_vars

\* A monitor that ended on the tick on which it read a terminal status and edited.
C5_Witness ==
    \E t \in TaskIDs :
        /\ monitor[t].pc = "done"
        /\ hist[t].termReads = 1
        /\ hist[t].termEdits = 1

C7_NoProceedAfterCreateFailure ==
    \A t \in TaskIDs :
        request[t].outcome = "createfail" =>
            /\ tasks[t] = NoTask
            /\ flow[t].pc = "none"
            /\ monitor[t].pc = "none"
            /\ hist[t] = NoHist
            /\ ~InChannel(t) /\ ~Parked(t)
            /\ worker[t] = "none"

\* A task ID of /batch_analyze or /top20_analyze whose record was rejected while
\* the handler went on to its summary.
C7_Witness ==
    \E t \in TaskIDs :
        /\ request[t].outcome = "createfail"
        /\ request[t].kind \in {"batch", "top"}
        /\ (batch.pc = "done" \/ top.pc = "done")

C9_EachUsernameOnce ==
    batch.pc = "done" =>
        batch.analysisCount + batch.skippedCount
            <= Cardinality({batch.valid[i] : i \in 1..Len(batch.valid)})

\* C10: a username the batch skipped for its cached result got exactly one
\* notification, and no task record of the batch is for it.
C10_CachedUserOneNotification ==
    batch.pc = "done" =>
        \A u \in batch.hits :
            /\ cachedSent[u] = 1
            /\ \A t \in TaskIDs :
                 (request[t].kind = "batch" /\ tasks[t] # NoTask) =>
                     tasks[t].Username # u

\* The entries of a sequence.
Range(s) == {s[i] : i \in 1..Len(s)}

\* How many users of a handler's loop ended in the given way.
Outcomes(h, outcome) == Cardinality({i \in 1..Len(h.outcomes) : h.outcomes[i] = outcome})

\* The tasks a handler created and started a flow for.
Admitted(kind) ==
    {t \in TaskIDs : request[t].kind = kind /\ request[t].outcome = "admitted"}

\* C11: a batch with more than 20 valid usernames is rejected as a whole: the
\* rejection is sent and the handler ends before the first pass of its loop, so
\* that no request, task record or flow is the batch's (no item is offered or
\* enqueued for it) and it sent no cached notification.
C11_OversizedBatchRejected ==
    (batch.pc # "idle" /\ Cardinality({k \in 1..Len(batch.usernames) :
                                        LET e == TrimPrefixAt(TrimSpace(batch.usernames[k]))
                                        IN  e # <<>> /\ Len(e) <= MaxUsernameLen
                                            /\ ~ContainsSpace(e)}) > MaxBatchUsers) =>
        /\ batch.pc = "done"
        /\ "batch_too_many" \in replies
        /\ replies \cap {"batch_starting", "batch_summary"} = {}
        /\ batch.i = 1 /\ batch.hits = {}
        /\ batch.analysisCount = 0 /\ batch.skippedCount = 0 /\ batch.failed = 0
        /\ \A t \in TaskIDs : request[t].kind # "batch" /\ flow[t].kind # "batch"

\* A rejected batch of 21 usernames.
C11_Witness ==
    /\ batch.pc = "done"
    /\ Len(batch.usernames) = MaxBatchUsers + 1
    /\ "batch_too_many" \in replies

\* C13: a user whose task record could not be persisted does not end the loop of
\* /batch_analyze or /top20_analyze: every user before the loop's position was
\* started, skipped or failed, and the handler ends only after the last user, with
\* its summary.
C13_ItemFailureDoesNotStopBatch ==
    /\ "batch_starting" \in replies =>
         /\ batch.analysisCount + batch.skippedCount + batch.failed = batch.i - 1
         /\ batch.pc = "done" =>
              batch.i = Len(batch.valid) + 1 /\ "batch_summary" \in replies
    /\ "top_starting" \in replies =>
         /\ top.analysisCount + top.skippedCount + top.failed = top.i - 1
         /\ top.pc = "done" =>
              top.i = Len(top.users) + 1 /\ "top_summary" \in replies

\* A finished batch whose first task record was rejected and whose next was started.
C13_Witness ==
    /\ batch.pc = "done"
    /\ request[1] = [kind |-> "batch", outcome |-> "createfail"]
    /\ request[2] = [kind |-> "batch", outcome |-> "admitted"]

\* C14: in a batch that has a valid entry, every entry with a space or of more
\* than 50 characters is listed in the confirmation and gets no pass of the loop
\* and no task, every other non-empty entry is among the usernames the loop goes
\* through to its end; a batch of invalid entries only gets the no-valid-usernames
\* reply.
C14_InvalidEntriesReported ==
    LET Entry(k) == TrimPrefixAt(TrimSpace(batch.usernames[k]))
        Bad(e) == Len(e) > MaxUsernameLen \/ ContainsSpace(e)
        Entries == {Entry(k) : k \in 1..Len(batch.usernames)} \ {<<>>}
    IN  /\ "batch_starting" \in replies =>
             /\ \A e \in Entries :
                  IF Bad(e)
                  THEN /\ e \in Range(batch.confirmed)
                       /\ e \notin Range(batch.valid)
                       /\ \A t \in TaskIDs : tasks[t] # NoTask => tasks[t].Username # e
                  ELSE e \in Range(batch.valid)
             /\ batch.pc = "done" =>
                  batch.analysisCount + batch.skippedCount + batch.failed
                      = Len(batch.valid)
        /\ (batch.pc = "done" /\ Entries # {} /\ \A e \in Entries : Bad(e)) =>
             "batch_no_valid" \in replies

\* A finished batch that reported an invalid entry and started or skipped another.
C14_Witness ==
    /\ batch.pc = "done"
    /\ batch.confirmed # <<>>
    /\ batch.analysisCount + batch.skippedCount >= 1

\* C12: a list handler that entered its loop reaches its summary whatever the
\* dispatch flows and the worker do, also with the channel full and the worker
\* never receiving.
C12_HandlersReachSummary ==
    /\ (batch.pc = "loop") ~> (batch.pc = "done" /\ "batch_summary" \in replies)
    /\ (top.pc = "loop") ~> (top.pc = "done" /\ "top_summary" \in replies)

\* The batch sent its summary while a flow waits on the full channel and the
\* worker has received nothing.
C12_Witness ==
    /\ batch.pc = "done"
    /\ "batch_summary" \in replies
    /\ \E t \in TaskIDs : flow[t].pc = "blocked"
    /\ \A t \in TaskIDs : worker[t] = "none"

\* C20: the step in which a flow panics leaves that flow's task failed with the
\* message of the panic and the flow returned; no other task's record, flow or
\* monitor and nothing of the handlers, the channel or the worker changes.
C20_PanicBecomesFailedTask ==
    [][\A t \in TaskIDs :
         (hist[t].panicked = "" /\ hist'[t].panicked # "") =>
             /\ tasks'[t] # NoTask
             /\ tasks'[t].Status = ANALYSIS_STATUS_FAILED
             /\ tasks'[t].ErrorMessage = InternalError(hist'[t].panicked)
             /\ flow'[t].pc = "done"
             /\ \A u \in TaskIDs \ {t} :
                  tasks'[u] = tasks[u] /\ flow'[u] = flow[u]
             /\ UNCHANGED <<monitor, worker, batch, top, analysisChannel, sendq>>]_vars

\* A flow that panicked while another task is under way and untouched.
C20_Witness ==
    \E t \in TaskIDs, u \in TaskIDs :
        /\ t # u
        /\ hist[t].panicked # ""
        /\ tasks[t].Status = ANALYSIS_STATUS_FAILED
        /\ tasks[u] # NoTask
        /\ tasks[u].Status = ANALYSIS_STATUS_RUNNING
        /\ hist[u].panicked = ""

\* The chat IDs that initialChatIDs names.
InitialChats ==
    {ParseInt(TrimSpace(initialChatIDs[k])).value :
        k \in {n \in 1..Len(initialChatIDs) : ~ParseInt(TrimSpace(initialChatIDs[n])).err}}

\* C15: the registry holds, each once, the chats of the initial configuration and
\* the chats an update came from, however often; a step that changes the registry
\* adds one chat that was not registered and leaves the other members as they were.
C15_RegistrationIdempotent ==
    /\ [](/\ DOMAIN chatIDs = InitialChats \cup poll.seen
          /\ \A c \in DOMAIN chatIDs : chatIDs[c] = TRUE)
    /\ [][chatIDs' # chatIDs =>
            \E c \in UpdateChats \ DOMAIN chatIDs :
                /\ DOMAIN chatIDs' = DOMAIN chatIDs \cup {c}
                /\ \A d \in DOMAIN chatIDs : chatIDs'[d] = chatIDs[d]]_vars

\* Every call of processUpdates is over, an update came from a chat of the initial
\* configuration, and the registry is the one of the initial configuration.
C15_Witness ==
    /\ poll.pc = "idle"
    /\ poll.rounds = MaxPolls
    /\ poll.seen \cap InitialChats # {}
    /\ DOMAIN chatIDs = InitialChats

\* C16: a broadcast visits only chats registered when it started, and a
\* registration never has to wait for a broadcast under way.
C16_IterationDoesNotBlockRegistration ==
    /\ bc.pc = "sending" => bc.visited \subseteq bc.snapshot
    /\ poll.pc # "waiting"

\* C17: the IDs that the stores generated are pairwise distinct.
C17_DistinctIDs ==
    \A i \in 1..Len(stored), j \in 1..Len(stored) :
        i # j => stored[i].id # stored[j].id

\* C18: the reply to a /detail_ command whose ID is not a key of the map never
\* shows a notification, is the not-found reply when the command has the form
\* /detail_<id>, and the lookup leaves the map as it was.
C18_UnknownIDNotFound ==
    [][detail' # detail =>
         LET parts == Split(detail'.command, "_") IN
         (Len(parts) # 2 \/ parts[Len(parts)] \notin DOMAIN notifications) =>
             /\ detail'.reply.view # "detail"
             /\ Len(parts) = 2 => detail'.reply = Text("not_found")
             /\ notifications' = notifications]_vars

\* A lookup of an ID nobody stored, in a registry that holds a notification.
C18_Witness ==
    /\ detail.command = DetailCommand(<<"c">>)
    /\ detail.reply = Text("not_found")
    /\ DOMAIN notifications # {}

\* C19: every alert stored so far is what a lookup of the ID its store generated
\* shows.
C19_StoredPayloadKept ==
    \A i \in 1..Len(stored) :
        DetailReply(notifications, DetailCommand(stored[i].id))
            = [view |-> "detail", emoji |-> "", text |-> stored[i].alert]

\* C21: a tick that read a non-terminal status never ends the monitor, whether
\* EditMessage succeeded or failed: after the edit the monitor waits for the next
\* tick, and the step it takes from there is the read of the task (or the end of
\* the monitor on a failed read).
C21_NonTerminalTickGoesOn ==
    [][\A t \in TaskIDs :
         /\ (monitor[t].pc = "edit" /\ ~Terminal(monitor[t].Status)
                /\ monitor'[t] # monitor[t]) => monitor'[t].pc = "tick"
         /\ (monitor[t].pc = "tick" /\ monitor[t].err /\ monitor'[t] # monitor[t]) =>
               \/ /\ monitor'[t].pc = "edit"
                  /\ monitor'[t].progressText = formatAnalysisProgress(tasks[t])
               \/ /\ monitor'[t].pc = "done"
                  /\ hist'[t].readFailed]_vars

\* A monitor whose edit failed on a tick with a non-terminal status and that waits
\* for the next tick.
C21_Witness ==
    \E t \in TaskIDs :
        /\ monitor[t].pc = "tick" /\ monitor[t].err
        /\ tasks[t] # NoTask

\* C22: the tick on which GetAnalysisTask fails ends the monitor at once, with no
\* edit of any message, and a monitor that has ended never reads again.
C22_ReadFailureStopsMonitor ==
    [][\A t \in TaskIDs :
         /\ (hist'[t].readFailed /\ ~hist[t].readFailed) =>
               /\ monitor[t].pc = "tick"
               /\ monitor'[t].pc = "done"
               /\ message' = message /\ tasks' = tasks
         /\ monitor[t].pc = "done" => monitor'[t] = monitor[t]]_vars

\* A monitor that ended on a failed read while its task is not terminal and its
\* message was never edited.
C22_Witness ==
    \E t \in TaskIDs :
        /\ hist[t].readFailed /\ monitor[t].pc = "done"
        /\ tasks[t] # NoTask /\ ~Terminal(tasks[t].Status)
        /\ message[t] = Text("starting")

\* C24: a failed GetUserByUsername or GetUserTweetForAnalysis never keeps a flow
\* from its send (each step of the flow after the first read leads to the next, up
\* to the offer), and the work item of a flow whose user lookup failed carries the
\* placeholder ID "unknown_" + username.
C24_PlaceholderAfterFailedLookup ==
    /\ [][\A t \in TaskIDs :
            /\ (flow[t].pc = "resolve" /\ flow'[t] # flow[t]) => flow'[t].pc = "ticker"
            /\ (flow[t].pc = "ticker" /\ flow'[t] # flow[t]) => flow'[t].pc = "announce"
            /\ (flow[t].pc = "announce" /\ flow'[t] # flow[t]) =>
                  flow'[t].pc \in {"offer", "send"}]_vars
    /\ [](\A t \in TaskIDs :
            (/\ flow[t].pc \in {"announce", "offer", "send", "sent", "blocked"}
             /\ flow[t].userID = UnknownID(flow[t].task.Username)) =>
                flow[t].newMessage.AuthorID = UnknownID(flow[t].task.Username))

\* C26: every work item of a /batch_analyze task, in the buffer of the channel or
\* in the hands of a sender parked on it, names the chat the command came from,
\* with the tweet found and with the placeholder alike.
C26_BatchItemCarriesChat ==
    /\ \A i \in 1..Len(analysisChannel) :
         request[analysisChannel[i].TaskID].kind = "batch" =>
             /\ analysisChannel[i].TelegramChatID = batch.chat
             /\ batch.chat \in Chats
    /\ \A t \in TaskIDs :
         (request[t].kind = "batch" /\ flow[t].newMessage # NoItem) =>
             flow[t].newMessage.TelegramChatID = batch.chat

\* A placeholder item of the batch in the buffer while a sender of the batch is
\* parked with the item of a tweet that was found.
C26_Witness ==
    /\ \E i \in 1..Len(analysisChannel) :
         /\ request[analysisChannel[i].TaskID].kind = "batch"
         /\ analysisChannel[i].Placeholder
         /\ analysisChannel[i].TelegramChatID = batch.chat
    /\ \E t \in TaskIDs :
         /\ Parked(t) /\ ~flow[t].newMessage.Placeholder
         /\ flow[t].newMessage.TelegramChatID = batch.chat

\* C27: a task of /top20_analyze has no chat attached: its record and its work
\* item name no chat, and it has no monitor.
C27_TopTasksHaveNoOrigin ==
    \A t \in TaskIDs :
        request[t].kind = "top" =>
            /\ tasks[t] # NoTask => tasks[t].TelegramChatID = 0
            /\ flow[t].newMessage # NoItem => flow[t].newMessage.TelegramChatID = 0
            /\ \A i \in 1..Len(analysisChannel) :
                 analysisChannel[i].TaskID = t => analysisChannel[i].TelegramChatID = 0
            /\ monitor[t].pc = "none"

C30_StepNeverMovesBackward ==
    [][\A t \in TaskIDs :
         (/\ flow[t].pc \in {"lookup", "resolve", "ticker", "announce"}
          /\ flow'[t] # flow[t]
          /\ tasks[t] # NoTask) =>
             /\ StepOrder(tasks'[t].CurrentStep) >= StepOrder(tasks[t].CurrentStep)
             /\ tasks'[t].CurrentStep = tasks[t].CurrentStep =>
                   tasks'[t].ProgressText = tasks[t].ProgressText]_vars

\* C25: when a handler sends its summary, the started count is the number of users
\* whose record was created and whose flow was started, the skipped count is the
\* number of users with a fresh cached analysis, and every user of the list ended
\* in exactly one way: started, skipped, or failed to persist. Started plus skipped
\* is at most the length of the list, and equals it when no record failed.
C25_SummaryCounts ==
    /\ "batch_summary" \in replies =>
         /\ Len(batch.outcomes) = Len(batch.valid)
         /\ batch.analysisCount = Outcomes(batch, "admitted")
         /\ batch.analysisCount = Cardinality(Admitted("batch"))
         /\ \A t \in Admitted("batch") : tasks[t] # NoTask /\ flow[t].pc # "none"
         /\ batch.skippedCount = Outcomes(batch, "skipped")
         /\ batch.analysisCount + batch.skippedCount <= Len(batch.valid)
         /\ Outcomes(batch, "failed") = 0 =>
               batch.analysisCount + batch.skippedCount = Len(batch.valid)
    /\ "top_summary" \in replies =>
         /\ Len(top.outcomes) = Len(top.users)
         /\ top.analysisCount = Outcomes(top, "admitted")
         /\ top.analysisCount = Cardinality(Admitted("top"))
         /\ \A t \in Admitted("top") : tasks[t] # NoTask /\ flow[t].pc # "none"
         /\ top.skippedCount = Outcomes(top, "skipped")
         /\ top.analysisCount + top.skippedCount <= Len(top.users)
         /\ Outcomes(top, "failed") = 0 =>
               top.analysisCount + top.skippedCount = Len(top.users)

\* The summary of a batch of three users: one started, one skipped, one whose
\* record failed.
C25_Witness ==
    /\ "batch_summary" \in replies
    /\ Len(batch.valid) = 3
    /\ batch.analysisCount = 1 /\ batch.skippedCount = 1
    /\ Outcomes(batch, "failed") = 1

\* C29: at no time are two goroutines of StartListening inside processUpdates,
\* fetching or dispatching updates, whatever the order of the calls of
\* StartListening and StopListening.
C29_OnePollingLoop ==
    Cardinality({l \in Listeners : listeners[l].pc \in {"get", "update"}}) <= 1

\* C23: with a second monitor started for a task, each of the two monitors ends
\* only on a failed read or after the tick that read a terminal status, each edits
\* no message but the one of the task, and once both have ended, with no read
\* failed and the task terminal, the message holds the rendering of the task's
\* terminal status.
C23_SecondMonitorSafe ==
    /\ [][\A t \in TaskIDs :
            /\ (monitor[t].pc # "done" /\ monitor'[t].pc = "done") =>
                  \/ monitor[t].pc = "tick" /\ monitor'[t].err
                  \/ monitor[t].pc = "edit" /\ Terminal(monitor[t].Status)
            /\ (resumed[t].pc # "done" /\ resumed'[t].pc = "done") =>
                  \/ resumed[t].pc = "tick" /\ resumed'[t].err
                  \/ resumed[t].pc = "edit" /\ Terminal(resumed[t].Status)
            /\ (\/ monitor[t].pc # "none" /\ monitor'[t] # monitor[t]
                \/ resumed[t].pc # "none" /\ resumed'[t] # resumed[t]) =>
                  \A m \in TaskIDs :
                      message'[m] # message[m] =>
                          tasks[t] # NoTask /\ m = tasks[t].MessageID]_vars
    /\ [](\A t \in TaskIDs :
            (/\ monitor[t].pc = "done" /\ ~monitor[t].err
             /\ resumed[t].pc = "done" /\ ~resumed[t].err
             /\ tasks[t] # NoTask /\ Terminal(tasks[t].Status)) =>
                message[tasks[t].MessageID] = formatAnalysisProgress(tasks[t]))

\* C31: the payload is in the registry before any message with its ID is sent: for
\* every ID that a chat received in a broadcast, a /detail_ lookup of that ID shows
\* the payload that was stored under it.
C31_ReceivedIDFindsPayload ==
    \A i \in 1..Len(stored) :
        stored[i].sentTo # {} =>
            /\ stored[i].id \in DOMAIN notifications
            /\ DetailReply(notifications, DetailCommand(stored[i].id))
                 = [view |-> "detail", emoji |-> "", text |-> stored[i].alert]

\* C32: a call of BroadcastMessage that returned has tried a send to every chat
\* that was registered, the failed sends included; it returned an error exactly
\* when a send failed; and with no chat registered it sent nothing and returned nil.
C32_BroadcastVisitsAll ==
    bc.returned # "none" =>
        /\ bc.visited = bc.snapshot
        /\ bc.failed \subseteq bc.visited
        /\ bc.returned = "error" <=> bc.failed # {}
        /\ bc.snapshot = {} => bc.visited = {} /\ bc.returned = "nil"
        /\ bc.pc = "idle" => chatMutex = 0

\* A broadcast to two chats that returned an error: one send failed, the other chat
\* got the message.
C32_Witness ==
    /\ bc.pc = "idle" /\ bc.returned = "error"
    /\ Cardinality(bc.visited) = 2
    /\ Cardinality(bc.failed) = 1
    /\ stored[Len(stored)].sentTo = bc.visited \ bc.failed

\* C33: the "Chat registered!" message was sent once for every chat an update came
\* from that the initial configuration does not name, and never for a chat of the
\* initial configuration or for a chat no update came from, however many updates
\* came from a chat.
C33_ConfirmationOncePerNewChat ==
    \A c \in UpdateChats :
        poll.info[c] = IF c \in poll.seen \ InitialChats THEN 1 ELSE 0

\* Every call of processUpdates is over; updates came from a chat of the initial
\* configuration, which got no message, and from a new chat, which got one.
C33_Witness ==
    /\ poll.pc = "idle" /\ poll.rounds = MaxPolls
    /\ \E c \in poll.seen \cap InitialChats : poll.info[c] = 0
    /\ \E c \in poll.seen \ InitialChats : poll.info[c] = 1


\* Only the first polling goroutine was ever started.
SingleLoop == \A l \in Listeners : l > 1 => listeners[l].pc = "none"

\* C34: with a single polling loop, every update has started at most one
\* handler; the updates below lastOffset are those the loop has gone through,
\* each once, with a handler started for each whose text has a command; the
\* updates at or above lastOffset were never gone through, among them whatever a
\* batch left behind at a text of white space only, and they are what the next
\* getUpdates returns.
C34_NoUpdateTwiceOrSkipped ==
    SingleLoop =>
        /\ \A i \in 1..Len(telegram.updates) :
             LET update == telegram.updates[i]
                 d == dispatched[update.UpdateID]
             IN  /\ d.handlers <= 1
                 /\ d.visits = IF update.UpdateID < lastOffset THEN 1 ELSE 0
                 /\ d.handlers = IF d.visits = 1 /\ Fields(update.Text) # <<>>
                                 THEN 1 ELSE 0
        /\ \A l \in Listeners :
             /\ \A i \in 1..Len(listeners[l].updates) :
                  listeners[l].updates[i].UpdateID >= lastOffset
             /\ \A i \in 1..Len(listeners[l].abandoned) :
                  \/ listeners[l].abandoned[i].UpdateID >= lastOffset
                  \/ dispatched[listeners[l].abandoned[i].UpdateID].visits = 1
        /\ Result(lastOffset) =
             SelectSeq(telegram.updates,
                       LAMBDA update : dispatched[update.UpdateID].visits = 0)

\* A batch ended at an update of white space only and left an update behind,
\* which a later batch brought back and handed to its handler.
C34_Witness ==
    /\ SingleLoop
    /\ \E l \in Listeners :
         /\ listeners[l].abandoned # <<>>
         /\ \A i \in 1..Len(listeners[l].abandoned) :
              LET update == listeners[l].abandoned[i] IN
              /\ Handler(update.Text) \notin {"none", "return"}
              /\ dispatched[update.UpdateID].visits = 1
              /\ dispatched[update.UpdateID].handlers = 1


\* C36: a handler started for one of the examples of the help message,
\* /history_john_doe, /ticker_history_john_doe or /export_john_doe, takes john_doe
\* as the username and does not answer that the format of the command is invalid.
C36_UnderscoreUsernamesAccepted ==
    \A i \in 1..Len(telegram.updates) :
        LET update == telegram.updates[i]
            d == dispatched[update.UpdateID]
        IN  (/\ d.handlers >= 1
             /\ update.Text \in {HistoryCommand(john_doe), TickerHistoryCommand(john_doe),
                                 ExportCommand(john_doe)})
            => /\ d.reply.view # "invalid_format"
               /\ d.reply.text = john_doe


\* C35: no edit is issued against message ID 0: a monitor about to edit holds a
\* message ID other than 0; a monitor exists only for an admitted /analyze task,
\* whose record carries the ID of the progress message that was sent; the tasks
\* of /batch_analyze and /top20_analyze carry message ID 0 and have no monitor.
C35_NoEditOfMessageZero ==
    \A t \in TaskIDs :
        /\ monitor[t].pc = "edit" => monitor[t].MessageID # 0
        /\ monitor[t].pc # "none" =>
               /\ request[t] = [kind |-> "analyze", outcome |-> "admitted"]
               /\ tasks[t] # NoTask
               /\ tasks[t].MessageID # 0
        /\ request[t].kind \in {"batch", "top"} =>
               /\ monitor[t].pc = "none"
               /\ tasks[t] # NoTask => tasks[t].MessageID = 0

\* The monitor of an /analyze task has edited the progress message of the task
\* and ended.
C35_Witness ==
    \E t \in TaskIDs :
        /\ monitor[t].pc = "done" /\ ~monitor[t].err
        /\ request[t].kind = "analyze"
        /\ tasks[t].MessageID # 0
        /\ hist[t].termEdits >= 1
        /\ message[tasks[t].MessageID] = formatAnalysisProgress(tasks[t])

====
